---- MODULE Spec2Model ----
(***************************************************************************)
(* Transaction filling through the middleware stack of ethers-rs:          *)
(* Provider::fill_transaction (ethers-providers/src/provider.rs), the      *)
(* SignerMiddleware layer above it (ethers-middleware/src/signer.rs) and   *)
(* the gas escalator's monitor list                                        *)
(* (ethers-middleware/src/gas_escalator/mod.rs), DsProxy as a Transformer  *)
(* (ethers-middleware/src/transformer), the paginated log query            *)
(* (ethers-providers/src/log_query.rs) and the default methods of trait    *)
(* Middleware (ethers-providers/src/lib.rs).                               *)
(***************************************************************************)
EXTENDS Integers, Sequences, FiniteSets, TLC

(***************************************************************************)
(* Bounds of the model.                                                    *)
(***************************************************************************)
\* U256 values returned by the node are drawn from 1..MaxVal
MaxVal == 2
\* chain ids a caller may put on a transaction are drawn from 1..MaxChain
MaxChain == 2
\* concurrent submit calls on the gas escalator
MaxSubmits == 2
\* wake-ups of the escalation monitor
MaxSweeps == 2
\* the clock runs from 0 to MaxTime
MaxTime == 2
\* blocks are numbered 0..MaxHead
MaxHead == 3
\* page sizes of a log query are drawn from 1..MaxPage
MaxPage == 2
\* pass-through layers stacked over a Provider
MaxDepth == 2
\* node_client calls made on one Provider
MaxNodeCalls == 3
\* polls of one event stream
MaxPolls == 5
\* logs an underlying log stream holds
MaxLogs == 2
\* fee_history calls made on one Provider
MaxFeeCalls == 2
\* request calls each clone of a MockProvider makes
MaxCloneCalls == 1
\* responses pushed before the clones start calling
MaxPushed == 2
\* calls made on one MockProvider
MaxMockOps == 4
\* increments of the linear escalation strategy are drawn from 0..MaxIncrement
MaxIncrement == 4

(***************************************************************************)
(* Option<T>: None is the empty sequence, Some(v) the one-element one.     *)
(***************************************************************************)
None == <<>>

Some(v) == <<v>>

IsSome(o) == o # None

Unwrap(o) == o[1]

Vals == 1..MaxVal

OptVals == {None} \cup {Some(v) : v \in Vals}

\* the signer's own address, a foreign sender, the provider's default sender
SignerAddr == "addrSigner"

OtherAddr == "addrOther"

DefaultAddr == "addrDefault"

\* an address a transaction is sent to, and the one an ENS name resolves to
ToAddr == "addrTo"

ResolvedAddr == "addrResolved"

\* NameOrAddress
Address(a) == [tag |-> "Address", v |-> a]

Name(n) == [tag |-> "Name", v |-> n]

EnsName == "name.eth"

\* TypedTransaction variants
Kinds == {"Legacy", "Eip2930", "Eip1559"}

\* Option<BlockId> argument of fill_transaction
Blocks == {None, Some("blk")}

\* errors a transport request can fail with
TransportErrs == {"E1", "E2"}

\* layer stacks, outermost layer first
Stacks ==
  { <<"Provider">>, <<"Signer", "Provider">>, <<"Transformer", "Provider">>,
    <<"GasEscalator", "Signer", "Provider">> }

\* the layers whose impl Middleware defines inner() and nothing else
PassThrough == {"Transformer", "GasEscalator"}

\* transactions a caller can hand to fill_transaction / sign_transaction
TxInputs ==
  { [kind |-> k, from |-> f, to |-> t, gas |-> g, gas_price |-> gp,
     max_fee |-> mf, max_prio |-> mp, nonce |-> n, chain_id |-> c] :
      k \in Kinds,
      f \in {None, Some(SignerAddr), Some(OtherAddr)},
      t \in {None, Some(Address(ToAddr)), Some(Name(EnsName))},
      g \in {None, Some(1)},
      gp \in {None, Some(1)},
      mf \in {None, Some(1)},
      mp \in {None, Some(1)},
      n \in {None, Some(1)},
      c \in {None} \cup {Some(i) : i \in 1..MaxChain} }

\* a legacy / access-list transaction carries gas_price only, a fee-market
\* one max_fee_per_gas and max_priority_fee_per_gas only
WellFormed(t) ==
  IF t.kind = "Eip1559" THEN t.gas_price = None
  ELSE t.max_fee = None /\ t.max_prio = None

EmptyTx ==
  [kind |-> "Legacy", from |-> None, to |-> None, gas |-> None,
   gas_price |-> None, max_fee |-> None, max_prio |-> None, nonce |-> None,
   chain_id |-> None]

VARIABLES
  stack,         \* the layers the caller talks to, outermost first
  provider_from, \* Provider.from
  signer_chain,  \* signer.chain_id()
  op,            \* the operation in progress
  pc,            \* position inside the operation
  tx,            \* the transaction being filled (the caller's &mut)
  tx0,           \* the transaction as the caller passed it
  block,         \* the block argument
  requests,      \* transport requests issued, in order
  result,        \* what the outermost caller got back
  est_calls,     \* invocations of estimate_eip1559_fees in this call
  fees,          \* the pair estimate_eip1559_fees returned
  first_err,     \* error of the first eth_feeHistory attempt
  signed,        \* transactions handed to signer.sign_transaction
  txs,           \* GasEscalatorMiddleware.txs: the monitored transactions
  lock,          \* holder of the Mutex around txs
  sub_pc,        \* position of each submit call
  sub_tx,        \* the transaction each submit call was given
  sub_res,       \* what each submit call returned
  sweep_pc,      \* position of the escalation monitor
  sweep_idx,     \* the record the monitor is looking at
  sweep_now,     \* the time the monitor woke up
  sweeps,        \* completed wake-ups
  now,           \* the clock
  mined,         \* hashes the node has a receipt for
  resent,        \* per hash: what was resubmitted, and after what time
  retired,       \* per hash: resubmissions made when its receipt was seen
  tf_pc,         \* position of a Transformer::transform call
  tf_tx,         \* the transaction handed to transform (the caller's &mut)
  tf_tx0,        \* that transaction as the caller passed it
  tf_res,        \* what transform returned
  lq_state,      \* LogQuery.state
  lq_from,       \* LogQuery.from_block
  lq_from0,      \* from_block of the filter the query was made with
  lq_page,       \* LogQuery.page_size
  lq_logs,       \* LogQuery.current_logs
  lq_last,       \* LogQuery.last_block
  lq_fetches,    \* block windows of the log fetches issued, in order
  lq_received,   \* logs received from the node, in order
  lq_yielded,    \* logs handed to the caller, in order
  lq_err,        \* the error handed to the caller, if any
  lq_head_reqs,  \* head-block requests issued
  chain_head,    \* the node's current head block
  lay_pc,        \* position of a call going through pass-through layers
  lay_op,        \* the operation called on the current layer
  lay_stack,     \* the layers above the Provider, outermost first
  lay_level,     \* the layer the call is in (Len(lay_stack) + 1: Provider)
  lay_resps,     \* what the transport will answer, request by request
  lay_requests,  \* requests issued by the call through the layers
  lay_result,    \* what the outermost layer returned
  ref_requests,  \* requests issued by the same call on the Provider alone
  ref_result,    \* what the Provider alone returned
  sg_pc,         \* whether a SignerMiddleware exists and what it last did
  sg_op,         \* the SignerMiddleware operation last called
  sg_chain,      \* signer.chain_id() of the signer in hand
  sg_chain0,     \* signer.chain_id() before construction
  sg_answer,     \* what the inner layer answered to get_chainid
  sg_requests,   \* requests the constructor sent to the inner layer
  sg_result,     \* what the operation returned
  sg_tx,         \* the transaction handed to sign_transaction
  sg_from,       \* the address handed to sign_transaction
  sg_signed,     \* transactions handed to signer.sign_transaction
  mk_pc,         \* whether the MockProvider's caller is running or panicked
  mk_requests,   \* MockProvider.requests
  mk_responses,  \* MockProvider.responses
  mk_last,       \* the last call made on the MockProvider
  mk_ret,        \* what that call returned
  mk_steps,      \* calls made so far
  mk_log,        \* every (method, params) handed to request, in call order
  mk_asserted,   \* requests removed by assert_request so far
  lin_k,         \* LinearGasPrice: the increment of the strategy
  lin_initial,   \* the price a record was first broadcast at
  lin_now,       \* time since that first broadcast
  lin_elapsed,   \* time_elapsed given to the last get_gas_price, if any
  lin_price,     \* what that get_gas_price returned
  nc_cache,      \* Provider._node_client
  nc_requests,   \* web3_clientVersion requests sent to the node
  nc_rets,       \* what each node_client call returned, in call order
  es_src,        \* logs the underlying stream has yet to yield
  es_under,      \* what the underlying stream returned to the last poll
  es_ret,        \* what EventStream::poll_next returned to it
  esm_ret,       \* what EventStreamMeta::poll_next returned to it
  es_polls,      \* polls made so far
  cc_stack,      \* the layer stack two concurrent calls share
  cc_call,       \* per call: position, transaction as passed and as it stands, result
  cc_answers,    \* per call: the transport answers it has received, in order
  cc_requests,   \* the shared transport: (call, method) of every request, in order
  fh_pc,         \* where a fee_history call stands
  fh_count,      \* its block_count argument, a U256
  fh_block,      \* its last_block argument
  fh_requests,   \* the requests it has sent
  fh_answers,    \* the transport answers to them
  fh_result,     \* what it returned
  fh_calls,      \* fee_history calls started on this Provider
  mq_requests,   \* MockProvider.requests, shared by the clones
  mq_who,        \* for each recorded request, the clone and call that recorded it
  mq_responses,  \* MockProvider.responses, shared by the clones
  mq_pushed,     \* the responses pushed before the calls started
  mq_pc,         \* per clone: between calls, or with its request recorded
  mq_arg,        \* per clone: method and params of the call in progress
  mq_done,       \* per clone: its finished calls and what they returned
  cl_heap,       \* the monitor lists that exist, by allocation
  cl_txs,        \* per handle: the allocation its txs field points to
  cl_all,        \* every record enqueued and not yet removed, in order
  cl_seen,       \* the last sweep: the handle it ran on, the list it went through
  cl_next,       \* hash of the next transaction to be submitted
  sm_mws,        \* the SignerMiddleware values built so far
  sm_by,         \* per middleware: the constructor that produced it
  sm_op,         \* the operation last called and the middleware it ran on
  sm_tx0,        \* the transaction lent to a read-only operation, before the call
  sm_tx,         \* the same transaction after the call
  sm_sent,       \* the transaction the inner layer received
  sm_ret         \* what the operation returned

fillVars == <<stack, provider_from, signer_chain, op, pc, tx, tx0, block,
              requests, result, est_calls, fees, first_err, signed>>

escVars == <<txs, lock, sub_pc, sub_tx, sub_res, sweep_pc, sweep_idx,
             sweep_now, sweeps, now, mined, resent, retired>>

tfVars == <<tf_pc, tf_tx, tf_tx0, tf_res>>

lqVars == <<lq_state, lq_from, lq_from0, lq_page, lq_logs, lq_last, lq_fetches,
            lq_received, lq_yielded, lq_err, lq_head_reqs, chain_head>>

layVars == <<lay_pc, lay_op, lay_stack, lay_level, lay_resps, lay_requests,
             lay_result, ref_requests, ref_result>>

sgVars == <<sg_pc, sg_op, sg_chain, sg_chain0, sg_answer, sg_requests,
            sg_result, sg_tx, sg_from, sg_signed>>

mkVars == <<mk_pc, mk_requests, mk_responses, mk_last, mk_ret, mk_steps,
            mk_log, mk_asserted>>

linVars == <<lin_k, lin_initial, lin_now, lin_elapsed, lin_price>>

ncVars == <<nc_cache, nc_requests, nc_rets>>

esVars == <<es_src, es_under, es_ret, esm_ret, es_polls>>

ccVars == <<cc_stack, cc_call, cc_answers, cc_requests>>

fhVars == <<fh_pc, fh_count, fh_block, fh_requests, fh_answers, fh_result, fh_calls>>

mqVars == <<mq_requests, mq_who, mq_responses, mq_pushed, mq_pc, mq_arg,
            mq_done>>

clVars == <<cl_heap, cl_txs, cl_all, cl_seen, cl_next>>

smVars == <<sm_mws, sm_by, sm_op, sm_tx0, sm_tx, sm_sent, sm_ret>>

vars == <<fillVars, escVars, tfVars, lqVars, layVars, sgVars, mkVars, linVars,
         ncVars, esVars, ccVars, fhVars, mqVars, clVars, smVars>>

\* what each component leaves alone
nonFillVars == <<escVars, tfVars, lqVars, layVars, sgVars, mkVars, linVars,
                  ncVars, esVars, ccVars, fhVars, mqVars, clVars, smVars>>

nonEscVars == <<fillVars, tfVars, lqVars, layVars, sgVars, mkVars, linVars,
                 ncVars, esVars, ccVars, fhVars, mqVars, clVars, smVars>>

nonTfVars == <<fillVars, escVars, lqVars, layVars, sgVars, mkVars, linVars,
                ncVars, esVars, ccVars, fhVars, mqVars, clVars, smVars>>

nonLqVars == <<fillVars, escVars, tfVars, layVars, sgVars, mkVars, linVars,
                ncVars, esVars, ccVars, fhVars, mqVars, clVars, smVars>>

nonLayVars == <<fillVars, escVars, tfVars, lqVars, sgVars, mkVars, linVars,
                 ncVars, esVars, ccVars, fhVars, mqVars, clVars, smVars>>

nonSgVars == <<fillVars, escVars, tfVars, lqVars, layVars, mkVars, linVars,
                ncVars, esVars, ccVars, fhVars, mqVars, clVars, smVars>>

nonMkVars == <<fillVars, escVars, tfVars, lqVars, layVars, sgVars, linVars,
                ncVars, esVars, ccVars, fhVars, mqVars, clVars, smVars>>

nonLinVars == <<fillVars, escVars, tfVars, lqVars, layVars, sgVars, mkVars,
                 ncVars, esVars, ccVars, fhVars, mqVars, clVars, smVars>>

nonNcVars == <<fillVars, escVars, tfVars, lqVars, layVars, sgVars, mkVars,
                linVars, esVars, ccVars, fhVars, mqVars, clVars, smVars>>

nonEsVars == <<fillVars, escVars, tfVars, lqVars, layVars, sgVars, mkVars,
                linVars, ncVars, ccVars, fhVars, mqVars, clVars, smVars>>

nonCcVars == <<fillVars, escVars, tfVars, lqVars, layVars, sgVars, mkVars,
                linVars, ncVars, esVars, fhVars, mqVars, clVars, smVars>>

nonFhVars == <<fillVars, escVars, tfVars, lqVars, layVars, sgVars, mkVars,
                linVars, ncVars, esVars, ccVars, mqVars, clVars, smVars>>

nonMqVars == <<fillVars, escVars, tfVars, lqVars, layVars, sgVars, mkVars,
                linVars, ncVars, esVars, ccVars, fhVars, clVars, smVars>>

nonClVars == <<fillVars, escVars, tfVars, lqVars, layVars, sgVars, mkVars,
                linVars, ncVars, esVars, ccVars, fhVars, mqVars, smVars>>

nonSmVars == <<fillVars, escVars, tfVars, lqVars, layVars, sgVars, mkVars,
                linVars, ncVars, esVars, ccVars, fhVars, mqVars, clVars>>

config == <<stack, provider_from, signer_chain>>

Submitters == 1..MaxSubmits

\* GasEscalatorMiddleware with an empty monitor list, nothing in flight
EscInit ==
  /\ txs = <<>>
  /\ lock = -1
  /\ sub_pc = [p \in Submitters |-> "idle"]
  /\ sub_tx = [p \in Submitters |->
                 [kind |-> "Legacy", gas_price |-> 1, nonce |-> p]]
  /\ sub_res = [p \in Submitters |-> <<>>]
  /\ sweep_pc = "sleep"
  /\ sweep_idx = 0
  /\ sweep_now = 0
  /\ sweeps = 0
  /\ now = 0
  /\ mined = {}
  /\ resent = [p \in Submitters |-> <<>>]
  /\ retired = [p \in Submitters |-> None]

\* the transaction fields Transformer::transform can see
TfEmptyTx ==
  [kind |-> "Legacy", from |-> None, to |-> None, data |-> None,
   value |-> None, gas |-> None, gas_price |-> None, max_fee |-> None,
   max_prio |-> None, nonce |-> None, chain_id |-> None,
   access_list |-> None]

\* no transform call made yet
TfIdle ==
  /\ tf_pc = "idle"
  /\ tf_tx = TfEmptyTx
  /\ tf_tx0 = TfEmptyTx
  /\ tf_res = <<>>

\* LogQuery::new: nothing fetched, nothing buffered, state Initial
LogQueryNew(from_block, page_size) ==
  /\ lq_from = from_block
  /\ lq_from0 = from_block
  /\ lq_page = page_size
  /\ lq_logs = <<>>
  /\ lq_last = None
  /\ lq_state = "Initial"
  /\ lq_fetches = <<>>
  /\ lq_received = <<>>
  /\ lq_yielded = <<>>
  /\ lq_err = None
  /\ lq_head_reqs = 0

\* a query nobody polls, on a chain at block 0
LqIdle ==
  /\ LogQueryNew(Some(0), 1)
  /\ chain_head = 0

\* no call through pass-through layers made yet
LayIdle ==
  /\ lay_pc = "idle"
  /\ lay_op = "none"
  /\ lay_stack = <<>>
  /\ lay_level = 0
  /\ lay_resps = <<>>
  /\ lay_requests = <<>>
  /\ lay_result = <<>>
  /\ ref_requests = <<>>
  /\ ref_result = <<>>

\* a signer on chain 1, no SignerMiddleware built from it yet
SgIdle ==
  /\ sg_pc = "none"
  /\ sg_op = "none"
  /\ sg_chain = 1
  /\ sg_chain0 = 1
  /\ sg_answer = <<>>
  /\ sg_requests = <<>>
  /\ sg_result = <<>>
  /\ sg_tx = EmptyTx
  /\ sg_from = SignerAddr
  /\ sg_signed = <<>>

\* MockProvider::new: both queues empty
MockProviderNew ==
  /\ mk_requests = <<>>
  /\ mk_responses = <<>>

\* a fresh MockProvider nobody has called
MkIdle ==
  /\ MockProviderNew
  /\ mk_pc = "run"
  /\ mk_last = [op |-> "new", method |-> "", params |-> "", ty |-> ""]
  /\ mk_ret = <<>>
  /\ mk_steps = 0
  /\ mk_log = <<>>
  /\ mk_asserted = 0

\* a linear strategy nobody has asked for a price
LinIdle ==
  /\ lin_k = 1
  /\ lin_initial = 0
  /\ lin_now = 0
  /\ lin_elapsed = <<>>
  /\ lin_price = <<>>

\* a Provider whose node client was never asked for
NcIdle ==
  /\ nc_cache = <<>>
  /\ nc_requests = <<>>
  /\ nc_rets = <<>>

\* an event stream nobody has polled
EsIdle ==
  /\ es_src = <<>>
  /\ es_under = <<>>
  /\ es_ret = <<>>
  /\ esm_ret = <<>>
  /\ es_polls = 0

\* no concurrent fill_transaction calls
CcIdle ==
  /\ cc_stack = <<"Provider">>
  /\ cc_call = <<>>
  /\ cc_answers = <<>>
  /\ cc_requests = <<>>

\* a Provider nobody has asked for the fee history
FhIdle ==
  /\ fh_pc = "idle"
  /\ fh_count = 1
  /\ fh_block = "latest"
  /\ fh_requests = <<>>
  /\ fh_answers = <<>>
  /\ fh_result = <<>>
  /\ fh_calls = 0

\* a MockProvider with no clones calling it
MqIdle ==
  /\ mq_requests = <<>>
  /\ mq_who = <<>>
  /\ mq_responses = <<>>
  /\ mq_pushed = <<>>
  /\ mq_pc = <<>>
  /\ mq_arg = <<>>
  /\ mq_done = <<>>

\* one GasEscalatorMiddleware, never cloned, nothing submitted
ClIdle ==
  /\ cl_heap = <<<<>>>>
  /\ cl_txs = <<1>>
  /\ cl_all = <<>>
  /\ cl_seen = [h |-> 0, list |-> <<>>]
  /\ cl_next = 1

\* no SignerMiddleware built yet
SmIdle ==
  /\ sm_mws = <<>>
  /\ sm_by = <<>>
  /\ sm_op = [name |-> "none", on |-> 0]
  /\ sm_tx0 = EmptyTx
  /\ sm_tx = EmptyTx
  /\ sm_sent = EmptyTx
  /\ sm_ret = <<>>

\* no fill_transaction in progress
FillIdle ==
  /\ signer_chain = 1
  /\ op = "none"
  /\ pc = "idle"
  /\ tx = EmptyTx
  /\ tx0 = EmptyTx
  /\ block = None
  /\ requests = <<>>
  /\ result = <<>>
  /\ est_calls = 0
  /\ fees = None
  /\ first_err = None
  /\ signed = <<>>

Init ==
  /\ EscInit
  /\ TfIdle
  /\ LqIdle
  /\ LayIdle
  /\ SgIdle
  /\ MkIdle
  /\ LinIdle
  /\ NcIdle
  /\ EsIdle
  /\ CcIdle
  /\ FhIdle
  /\ MqIdle
  /\ ClIdle
  /\ SmIdle
  /\ stack \in Stacks
  /\ provider_from \in {None, Some(DefaultAddr)}
  /\ FillIdle

(***************************************************************************)
(* Transport and error plumbing.                                           *)
(***************************************************************************)
\* Provider::request: the call reaches the transport with (method, params)
Request(method, params) ==
  requests' = Append(requests, [method |-> method, params |-> params])

Ok == <<"Ok">>

IsOk(r) == r = Ok

\* a transport failure seen by the Provider
JsonRpcClientError(e) == <<"JsonRpcClientError", e>>

\* FromErr::from of every layer above the Provider
RECURSIVE WrapErr(_, _)
WrapErr(r, n) == IF n = 0 THEN r ELSE <<"MiddlewareError">> \o WrapErr(r, n - 1)

\* variant: the layers above answer Ok whatever the Provider returned
ProviderReturn_Swallowed(r) ==
  /\ pc' = "done"
  /\ result' = Ok

\* the Provider returns r; the layers above convert an error and pass it up
ProviderReturn(r) ==
  /\ pc' = "done"
  /\ result' = IF IsOk(r) THEN r ELSE WrapErr(r, Len(stack) - 1)

(***************************************************************************)
(* The caller starts an operation on the outermost layer.                  *)
(***************************************************************************)
\* Middleware::fill_transaction of a layer that does not override it hands
\* the call to inner(); the first layer with a fill_transaction of its own
\* is where work starts
RECURSIVE FillEntry(_)
FillEntry(st) ==
  IF Head(st) = "Signer" THEN "s_pre"
  ELSE IF Head(st) \in PassThrough THEN FillEntry(Tail(st))
  ELSE "p_from"
CallFillTransaction ==
  /\ pc = "idle"
  /\ \E t \in TxInputs, b \in Blocks :
       /\ WellFormed(t)
       /\ tx' = t
       /\ tx0' = t
       /\ block' = b
  /\ op' = "fill_transaction"
  /\ pc' = FillEntry(stack)
  /\ requests' = <<>>
  /\ result' = <<>>
  /\ est_calls' = 0
  /\ fees' = None
  /\ first_err' = None
  /\ signed' = <<>>
  /\ UNCHANGED nonFillVars
  /\ UNCHANGED config

(***************************************************************************)
(* SignerMiddleware::fill_transaction                                      *)
(***************************************************************************)
\* variant: the signer's own address replaces any sender
SignerFrom_AlwaysSigner(t) == SignerAddr

\* the sender the nonce is looked up for
SignerFrom(t) ==
  IF IsSome(t.from) /\ t.from # Some(SignerAddr) THEN Unwrap(t.from)
  ELSE SignerAddr

\* variant: the signer's chain id replaces the caller's
WithSignerChainId_Always(t, chain) == [t EXCEPT !.chain_id = Some(chain)]

\* if tx.chain_id().is_none() { tx.set_chain_id(chain_id) }
WithSignerChainId(t, chain) ==
  IF t.chain_id = None THEN [t EXCEPT !.chain_id = Some(chain)] ELSE t

\* variant: the transaction count is requested whatever the caller supplied
NonceSupplied_Never(t) == FALSE

\* maybe(tx.nonce(), ..): a supplied nonce is used and nothing is requested
NonceSupplied(t) == IsSome(t.nonce)

\* sender and chain id, before the nonce is resolved
SignerPre ==
  /\ pc = "s_pre"
  /\ tx' = WithSignerChainId([tx EXCEPT !.from = Some(SignerFrom(tx))],
                             signer_chain)
  /\ pc' = "s_nonce"
  /\ UNCHANGED nonFillVars
  /\ UNCHANGED <<config, op, tx0, block, requests, result, est_calls, fees,
                 first_err, signed>>

\* maybe(tx.nonce, get_transaction_count(from, block)), then the inner fill
SignerNonce ==
  /\ pc = "s_nonce"
  /\ IF NonceSupplied(tx)
     THEN /\ pc' = "p_from"
          /\ UNCHANGED <<tx, requests, result>>
     ELSE /\ Request("eth_getTransactionCount", <<Unwrap(tx.from), block>>)
          /\ \/ \E e \in TransportErrs :
                  /\ pc' = "done"
                  /\ result' = WrapErr(JsonRpcClientError(e), Len(stack) - 1)
                  /\ tx' = tx
             \/ \E n \in Vals :
                  /\ tx' = [tx EXCEPT !.nonce = Some(n)]
                  /\ pc' = "p_from"
                  /\ result' = result
  /\ UNCHANGED nonFillVars
  /\ UNCHANGED <<config, op, tx0, block, est_calls, fees, first_err, signed>>

(***************************************************************************)
(* Provider::fill_transaction                                              *)
(***************************************************************************)
\* variant: the default-sender step also defaults the nonce
WithDefaultSender_AndNonce(t, d) ==
  IF IsSome(d) /\ t.from = None THEN [t EXCEPT !.from = d, !.nonce = Some(1)]
  ELSE [t EXCEPT !.nonce = Some(1)]

\* if let Some(default_sender) = self.default_sender() { if tx.from().is_none() .. }
WithDefaultSender(t, d) ==
  IF IsSome(d) /\ t.from = None THEN [t EXCEPT !.from = d] ELSE t

\* default sender
ProviderFrom ==
  /\ pc = "p_from"
  /\ tx' = WithDefaultSender(tx, provider_from)
  /\ pc' = "p_ens"
  /\ UNCHANGED nonFillVars
  /\ UNCHANGED <<config, op, tx0, block, requests, result, est_calls, fees,
                 first_err, signed>>

\* if let Some(NameOrAddress::Name(ref ens_name)) = tx.to()
ToIsName(t) == IsSome(t.to) /\ Unwrap(t.to).tag = "Name"

\* the recipient is not a name: nothing to resolve
ProviderNoEns ==
  /\ pc = "p_ens"
  /\ ~ToIsName(tx)
  /\ pc' = "p_price"
  /\ UNCHANGED nonFillVars
  /\ UNCHANGED <<config, op, tx, tx0, block, requests, result, est_calls, fees,
                 first_err, signed>>

\* query_resolver_parameters: ask the registry for the name's resolver
EnsGetResolver ==
  /\ pc = "p_ens"
  /\ ToIsName(tx)
  /\ Request("eth_call", <<"get_resolver", Unwrap(tx.to).v>>)
  /\ \/ \E e \in TransportErrs : ProviderReturn(JsonRpcClientError(e))
     \/ \E data \in {"empty", "zero"} : ProviderReturn(<<"EnsError">>)
     \/ /\ pc' = "ens_validate"
        /\ result' = result
  /\ UNCHANGED nonFillVars
  /\ UNCHANGED <<config, op, tx, tx0, block, est_calls, fees, first_err, signed>>

\* validate_resolver: supportsInterface(selector)
EnsValidateResolver ==
  /\ pc = "ens_validate"
  /\ Request("eth_call", <<"supports_interface", Unwrap(tx.to).v>>)
  /\ \/ \E e \in TransportErrs : ProviderReturn(JsonRpcClientError(e))
     \/ \E data \in {"empty", "false"} : ProviderReturn(<<"EnsError">>)
     \/ /\ pc' = "ens_resolve"
        /\ result' = result
  /\ UNCHANGED nonFillVars
  /\ UNCHANGED <<config, op, tx, tx0, block, est_calls, fees, first_err, signed>>

\* what the node can return to the resolver call: an encoded address or
\* bytes that are not one
ResolveData == {"word:addrResolved", "0x"}

\* abi::decode(&[param], bytes): None where the code's expect() panics
decode_bytes(data) ==
  IF data = "word:addrResolved" THEN Some(ResolvedAddr) ELSE None

\* the resolver's answer becomes the recipient
EnsResolve ==
  /\ pc = "ens_resolve"
  /\ Request("eth_call", <<"resolve", Unwrap(tx.to).v>>)
  /\ \/ /\ \E e \in TransportErrs : ProviderReturn(JsonRpcClientError(e))
        /\ tx' = tx
     \/ \E data \in ResolveData :
          IF IsSome(decode_bytes(data))
          THEN /\ tx' = [tx EXCEPT !.to = Some(Address(Unwrap(decode_bytes(data))))]
               /\ pc' = "p_price"
               /\ result' = result
          ELSE /\ pc' = "panic"
               /\ UNCHANGED <<tx, result>>
  /\ UNCHANGED nonFillVars
  /\ UNCHANGED <<config, op, tx0, block, est_calls, fees, first_err, signed>>

\* variant: the resolved gas price is not written back
SetGasPrice_Dropped(t, p) == t

\* tx.set_gas_price(gas_price)
SetGasPrice(t, p) == [t EXCEPT !.gas_price = Some(p)]

\* legacy and access-list transactions: one gas price, fetched if missing
FillGasPrice ==
  /\ pc = "p_price"
  /\ tx.kind \in {"Legacy", "Eip2930"}
  /\ IF IsSome(tx.gas_price)
     THEN /\ tx' = SetGasPrice(tx, Unwrap(tx.gas_price))
          /\ pc' = "p_gas"
          /\ UNCHANGED <<requests, result>>
     ELSE /\ Request("eth_gasPrice", <<>>)
          /\ \/ /\ \E e \in TransportErrs : ProviderReturn(JsonRpcClientError(e))
                /\ tx' = tx
             \/ \E p \in Vals :
                  /\ tx' = SetGasPrice(tx, p)
                  /\ pc' = "p_gas"
                  /\ result' = result
  /\ UNCHANGED nonFillVars
  /\ UNCHANGED <<config, op, tx0, block, est_calls, fees, first_err, signed>>

\* inner.max_fee_per_gas.is_none() || inner.max_priority_fee_per_gas.is_none()
NeedsFees(t) == t.max_fee = None \/ t.max_prio = None

\* fee-market transaction with both fee fields: nothing to estimate
Fill1559Keep ==
  /\ pc = "p_price"
  /\ tx.kind = "Eip1559"
  /\ ~NeedsFees(tx)
  /\ pc' = "p_gas"
  /\ UNCHANGED nonFillVars
  /\ UNCHANGED <<config, op, tx, tx0, block, requests, result, est_calls, fees,
                 first_err, signed>>

\* estimate_eip1559_fees, first part: base fee of the latest block
EstimateFeesGetBlock ==
  /\ pc = "p_price"
  /\ tx.kind = "Eip1559"
  /\ NeedsFees(tx)
  /\ est_calls' = est_calls + 1
  /\ Request("eth_getBlockByNumber", <<"latest", FALSE>>)
  /\ \/ \E e \in TransportErrs : ProviderReturn(JsonRpcClientError(e))
     \/ ProviderReturn(<<"CustomError", "Latest block not found">>)
     \/ ProviderReturn(<<"CustomError", "EIP-1559 not activated">>)
     \/ /\ pc' = "fee_history"
        /\ result' = result
  /\ UNCHANGED nonFillVars
  /\ UNCHANGED <<config, op, tx, tx0, block, fees, first_err, signed>>

\* variant: only the max fee is taken from the estimate
AssignFees_MaxFeeOnly(mf, mp) ==
  /\ fees' = Some(<<mf, mp>>)
  /\ tx' = [tx EXCEPT !.max_fee = Some(mf)]

\* the estimator's pair is assigned to both fee fields
AssignFees(mf, mp) ==
  /\ fees' = Some(<<mf, mp>>)
  /\ tx' = [tx EXCEPT !.max_fee = Some(mf), !.max_prio = Some(mp)]

\* fee_history, first attempt (hex-encoded block count)
FeeHistory ==
  /\ pc = "fee_history"
  /\ Request("eth_feeHistory", <<"hex">>)
  /\ \/ /\ \E mf \in Vals, mp \in Vals : AssignFees(mf, mp)
        /\ pc' = "p_gas"
        /\ UNCHANGED <<result, first_err>>
     \/ /\ \E e \in TransportErrs : first_err' = Some(e)
        /\ pc' = "fee_history_fallback"
        /\ UNCHANGED <<result, tx, fees>>
  /\ UNCHANGED nonFillVars
  /\ UNCHANGED <<config, op, tx0, block, est_calls, signed>>

\* fee_history, fallback attempt (integer block count)
FeeHistoryFallback ==
  /\ pc = "fee_history_fallback"
  /\ Request("eth_feeHistory", <<"int">>)
  /\ \/ /\ \E mf \in Vals, mp \in Vals : AssignFees(mf, mp)
        /\ pc' = "p_gas"
        /\ UNCHANGED result
     \/ /\ \E e \in TransportErrs : ProviderReturn(JsonRpcClientError(Unwrap(first_err)))
        /\ UNCHANGED <<tx, fees>>
  /\ UNCHANGED nonFillVars
  /\ UNCHANGED <<config, op, tx0, block, est_calls, first_err, signed>>

\* variant: the gas limit is estimated even when the caller set it
NeedsGas_Always(t) == TRUE

\* tx.gas().is_none()
NeedsGas(t) == t.gas = None

\* gas limit last: estimated on the transaction as filled so far
FillGas ==
  /\ pc = "p_gas"
  /\ IF ~NeedsGas(tx)
     THEN /\ ProviderReturn(Ok)
          /\ UNCHANGED <<tx, requests>>
     ELSE /\ Request("eth_estimateGas", <<tx, block>>)
          /\ \/ /\ \E e \in TransportErrs : ProviderReturn(JsonRpcClientError(e))
                /\ tx' = tx
             \/ /\ \E g \in Vals : tx' = [tx EXCEPT !.gas = Some(g)]
                /\ ProviderReturn(Ok)
  /\ UNCHANGED nonFillVars
  /\ UNCHANGED <<config, op, tx0, block, est_calls, fees, first_err, signed>>

(***************************************************************************)
(* SignerMiddleware::sign_transaction (the signing helper)                 *)
(***************************************************************************)
\* variant: the chain id comparison is skipped
ChainIdMismatch_Never(t, chain) == FALSE

\* Some(id) if id.as_u64() != chain_id
ChainIdMismatch(t, chain) == IsSome(t.chain_id) /\ Unwrap(t.chain_id) # chain

SignTransaction ==
  /\ pc = "idle"
  /\ Head(stack) = "Signer"
  /\ \E t \in TxInputs :
       /\ WellFormed(t)
       /\ tx0' = t
       /\ IF ChainIdMismatch(t, signer_chain)
          THEN /\ result' = <<"DifferentChainID">>
               /\ tx' = t
               /\ signed' = <<>>
          ELSE /\ tx' = [t EXCEPT !.chain_id = Some(signer_chain)]
               /\ signed' = <<tx'>>
               /\ \/ result' = <<"SignerError">>
                  \/ result' = Ok
  /\ op' = "sign_transaction"
  /\ pc' = "done"
  /\ block' = None
  /\ requests' = <<>>
  /\ est_calls' = 0
  /\ fees' = None
  /\ first_err' = None
  /\ UNCHANGED nonFillVars
  /\ UNCHANGED config

(***************************************************************************)
(* Gas escalator: submit and the escalation monitor around the list txs.   *)
(***************************************************************************)
\* the Mutex is free, or held by the monitor or by a submit call 1..MaxSubmits
Free == -1

Sweeper == 0

\* variant: lock() completes whoever holds the Mutex
MutexAvailable_Always(l) == TRUE

\* futures Mutex around txs: lock() completes only while nobody holds it
MutexAvailable(l) == l = Free

\* variant: every transaction variant is taken for escalation
Escalatable_Any(kind) == TRUE

\* transaction variants whose price the escalator can replace
Escalatable(kind) == kind \in {"Legacy", "Eip2930"}

\* linear strategy: the price grows by Increment per unit of elapsed time
Increment == 1

\* variant: the price of the first broadcast is returned again
LinearGetGasPrice_Flat(k, initial_price, time_elapsed) == initial_price

LinearGetGasPrice(k, initial_price, time_elapsed) ==
  initial_price + k * time_elapsed

\* variant: a record stays in the list after its receipt was seen
DropsMined_Never(receipt) == FALSE

\* a record whose receipt was seen leaves the list
DropsMined(receipt) == receipt

RemoveAt(seq, i) == SubSeq(seq, 1, i - 1) \o SubSeq(seq, i + 1, Len(seq))

\* submit: the transaction goes to the inner layer unchanged; a fee-market
\* one is then rejected, any other is headed for the monitor list
SubmitSend(p) ==
  /\ sub_pc[p] = "idle"
  /\ \E k \in Kinds :
       /\ sub_tx' = [sub_tx EXCEPT ![p] =
                                   [kind |-> k, gas_price |-> 1, nonce |-> p]]
       /\ \/ /\ sub_res' = [sub_res EXCEPT ![p] = <<"MiddlewareError">>]
             /\ sub_pc' = [sub_pc EXCEPT ![p] = "done"]
          \/ /\ ~Escalatable(k)
             /\ sub_res' = [sub_res EXCEPT ![p] = <<"UnsupportedTxType">>]
             /\ sub_pc' = [sub_pc EXCEPT ![p] = "done"]
          \/ /\ Escalatable(k)
             /\ sub_res' = sub_res
             /\ sub_pc' = [sub_pc EXCEPT ![p] = "lock"]
  /\ UNCHANGED <<txs, lock, sweep_pc, sweep_idx, sweep_now, sweeps, now, mined,
                 resent, retired>>
  /\ UNCHANGED nonEscVars

\* submit: wait for the list
SubmitLock(p) ==
  /\ sub_pc[p] = "lock"
  /\ MutexAvailable(lock)
  /\ lock' = p
  /\ sub_pc' = [sub_pc EXCEPT ![p] = "push"]
  /\ UNCHANGED <<txs, sub_tx, sub_res, sweep_pc, sweep_idx, sweep_now, sweeps,
                 now, mined, resent, retired>>
  /\ UNCHANGED nonEscVars

\* submit: one Escalation Record (hash, request, broadcast time, block)
SubmitPush(p) ==
  /\ sub_pc[p] = "push"
  /\ txs' = Append(txs, [hash |-> p, req |-> sub_tx[p], time |-> now,
                         block |-> None])
  /\ lock' = Free
  /\ sub_res' = [sub_res EXCEPT ![p] = Ok]
  /\ sub_pc' = [sub_pc EXCEPT ![p] = "done"]
  /\ UNCHANGED <<sub_tx, sweep_pc, sweep_idx, sweep_now, sweeps, now, mined,
                 resent, retired>>
  /\ UNCHANGED nonEscVars

\* the monitor wakes up on its frequency
SweepWake ==
  /\ sweep_pc = "sleep"
  /\ sweeps < MaxSweeps
  /\ sweep_pc' = "lock"
  /\ sweep_now' = now
  /\ UNCHANGED <<txs, lock, sub_pc, sub_tx, sub_res, sweep_idx, sweeps, now,
                 mined, resent, retired>>
  /\ UNCHANGED nonEscVars

\* the monitor waits for the list
SweepLock ==
  /\ sweep_pc = "lock"
  /\ MutexAvailable(lock)
  /\ lock' = Sweeper
  /\ sweep_idx' = 1
  /\ sweep_pc' = "scan"
  /\ UNCHANGED <<txs, sub_pc, sub_tx, sub_res, sweep_now, sweeps, now, mined,
                 resent, retired>>
  /\ UNCHANGED nonEscVars

\* the monitor looks up the receipt of the next record; a mined one is done
SweepScan ==
  /\ sweep_pc = "scan"
  /\ sweep_idx <= Len(txs)
  /\ LET r == txs[sweep_idx] IN
       IF r.hash \in mined
       THEN /\ retired' = [retired EXCEPT ![r.hash] = Some(Len(resent[r.hash]))]
            /\ IF DropsMined(TRUE)
               THEN txs' = RemoveAt(txs, sweep_idx) /\ sweep_idx' = sweep_idx
               ELSE txs' = txs /\ sweep_idx' = sweep_idx + 1
            /\ sweep_pc' = "scan"
       ELSE /\ sweep_pc' = "resubmit"
            /\ UNCHANGED <<txs, sweep_idx, retired>>
  /\ UNCHANGED <<lock, sub_pc, sub_tx, sub_res, sweep_now, sweeps, now, mined,
                 resent>>
  /\ UNCHANGED nonEscVars

\* variant: the price of the last resubmission is escalated further
PriceBase_LastSent(r, sent) ==
  IF sent = <<>> THEN r.req.gas_price ELSE sent[Len(sent)].req.gas_price

\* the price the strategy starts from: that of the record's request
PriceBase(r, sent) == r.req.gas_price

\* time from the record's broadcast to the monitor's wake-up; none when the
\* record was pushed after the monitor looked at the clock
duration_since(later, earlier) == IF later >= earlier THEN later - earlier ELSE 0

\* the record's request with the new price
Resubmission(req, new_price) == [req EXCEPT !.gas_price = new_price]

\* the monitor resubmits an outstanding record at the strategy's price
SweepResubmit ==
  /\ sweep_pc = "resubmit"
  /\ LET r == txs[sweep_idx]
         elapsed == duration_since(sweep_now, r.time)
         new_price == LinearGetGasPrice(Increment, PriceBase(r, resent[r.hash]),
                                        elapsed)
     IN resent' = [resent EXCEPT ![r.hash] =
                     Append(@, [req |-> Resubmission(r.req, new_price),
                                elapsed |-> elapsed])]
  /\ sweep_idx' = sweep_idx + 1
  /\ sweep_pc' = "scan"
  /\ UNCHANGED <<txs, lock, sub_pc, sub_tx, sub_res, sweep_now, sweeps, now,
                 mined, retired>>
  /\ UNCHANGED nonEscVars

\* the monitor has gone through the list and lets go of it
SweepRelease ==
  /\ sweep_pc = "scan"
  /\ sweep_idx > Len(txs)
  /\ lock' = Free
  /\ sweep_pc' = "sleep"
  /\ sweeps' = sweeps + 1
  /\ UNCHANGED <<txs, sub_pc, sub_tx, sub_res, sweep_idx, sweep_now, now,
                 mined, resent, retired>>
  /\ UNCHANGED nonEscVars

\* the node includes a broadcast transaction in a block
Mine(h) ==
  /\ sub_pc[h] \in {"lock", "push", "done"}
  /\ sub_res[h] \in {<<>>, Ok}
  /\ h \notin mined
  /\ mined' = mined \cup {h}
  /\ UNCHANGED <<txs, lock, sub_pc, sub_tx, sub_res, sweep_pc, sweep_idx,
                 sweep_now, sweeps, now, resent, retired>>
  /\ UNCHANGED nonEscVars

\* time passes
Tick ==
  /\ now < MaxTime
  /\ now' = now + 1
  /\ UNCHANGED <<txs, lock, sub_pc, sub_tx, sub_res, sweep_pc, sweep_idx,
                 sweep_now, sweeps, mined, resent, retired>>
  /\ UNCHANGED nonEscVars

NextEsc ==
  \/ \E p \in Submitters : SubmitSend(p)
  \/ \E p \in Submitters : SubmitLock(p)
  \/ \E p \in Submitters : SubmitPush(p)
  \/ SweepWake
  \/ SweepLock
  \/ SweepScan
  \/ SweepResubmit
  \/ SweepRelease
  \/ \E h \in Submitters : Mine(h)
  \/ Tick

\* a GasEscalatorMiddleware over a Provider; no fill_transaction in progress
InitEsc ==
  /\ EscInit
  /\ TfIdle
  /\ LqIdle
  /\ LayIdle
  /\ SgIdle
  /\ MkIdle
  /\ LinIdle
  /\ NcIdle
  /\ EsIdle
  /\ CcIdle
  /\ FhIdle
  /\ MqIdle
  /\ ClIdle
  /\ SmIdle
  /\ stack = <<"Provider">>
  /\ provider_from = None
  /\ FillIdle

SpecEsc == InitEsc /\ [][NextEsc]_vars

(***************************************************************************)
(* The linear strategy on its own: one record, first broadcast at          *)
(* lin_initial, asked for its price as time passes.                        *)
(***************************************************************************)
Increments == 0..MaxIncrement

InitialPrices == 0..MaxVal

\* time passes since the record's first broadcast
LinTick ==
  /\ lin_now < MaxTime
  /\ lin_now' = lin_now + 1
  /\ UNCHANGED <<lin_k, lin_initial, lin_elapsed, lin_price>>
  /\ UNCHANGED nonLinVars

\* escalator.get_gas_price(initial_price, time_elapsed)
LinGetGasPrice ==
  /\ lin_elapsed' = Some(lin_now)
  /\ lin_price' = Some(LinearGetGasPrice(lin_k, lin_initial, lin_now))
  /\ UNCHANGED <<lin_k, lin_initial, lin_now>>
  /\ UNCHANGED nonLinVars

NextLin ==
  \/ LinTick
  \/ LinGetGasPrice

\* a strategy of any increment and a record of any initial price
InitLin ==
  /\ EscInit
  /\ TfIdle
  /\ LqIdle
  /\ LayIdle
  /\ SgIdle
  /\ MkIdle
  /\ stack = <<"Provider">>
  /\ provider_from = None
  /\ FillIdle
  /\ NcIdle
  /\ EsIdle
  /\ CcIdle
  /\ FhIdle
  /\ MqIdle
  /\ ClIdle
  /\ SmIdle
  /\ lin_k \in Increments
  /\ lin_initial \in InitialPrices
  /\ lin_now = 0
  /\ lin_elapsed = <<>>
  /\ lin_price = <<>>

SpecLin == InitLin /\ [][NextLin]_vars

(***************************************************************************)
(* DsProxy as a Transformer                                                *)
(* (ethers-middleware/src/transformer/ds_proxy/mod.rs).                    *)
(***************************************************************************)
\* DsProxy.address
ProxyAddr == "addrProxy"

\* Bytes: sequences of opaque bytes
Payloads == {<<>>, <<"b1">>, <<"b1", "b2">>}

\* transactions a caller can hand to transform
TfTxInputs ==
  { [kind |-> k, from |-> f, to |-> t, data |-> d, value |-> v, gas |-> g,
     gas_price |-> gp, max_fee |-> mf, max_prio |-> mf, nonce |-> n,
     chain_id |-> c, access_list |-> al] :
      k \in Kinds,
      f \in {None, Some(OtherAddr)},
      t \in {None, Some(Address(ToAddr)), Some(Address(ProxyAddr)),
             Some(Name(EnsName))},
      d \in {None} \cup {Some(b) : b \in Payloads},
      v \in {None, Some(1)},
      g \in {None, Some(1)},
      gp \in {None, Some(1)},
      mf \in {None, Some(1)},
      n \in {None, Some(1)},
      c \in {None, Some(1)},
      al \in {None, Some("acl")} }

\* TransformerError::MissingField
MissingField(f) == <<"MissingField", f>>

\* variant: a missing target defaults to the zero address
to_addr_OrZero(t) ==
  IF IsSome(t.to) /\ Unwrap(t.to).tag = "Address" THEN Some(Unwrap(t.to).v)
  ELSE Some("addrZero")

\* tx.to_addr(): the target, when there is one and it is an address
to_addr(t) ==
  IF IsSome(t.to) /\ Unwrap(t.to).tag = "Address" THEN Some(Unwrap(t.to).v)
  ELSE None

\* id("execute(address,bytes)")
ExecuteSelector == "execute(address,bytes)"

\* variant: the target is left out of the encoded call
encode_with_selector_NoTarget(selector, target, data) ==
  <<selector, ProxyAddr>> \o data

\* contract.encode_with_selector(selector, (target, data)): the selector
\* followed by the encoded arguments
encode_with_selector(selector, target, data) ==
  <<selector, target>> \o data

\* variant: writing the payload also clears the value
set_data_ClearsValue(t, d) == [t EXCEPT !.data = Some(d), !.value = None]

\* tx.set_data
set_data(t, d) == [t EXCEPT !.data = Some(d)]

\* tx.set_to
set_to(t, a) == [t EXCEPT !.to = Some(Address(a))]

\* the caller hands a transaction to DsProxy::transform
CallTransform ==
  /\ tf_pc = "idle"
  /\ \E t \in TfTxInputs :
       /\ WellFormed(t)
       /\ tf_tx' = t
       /\ tf_tx0' = t
  /\ tf_pc' = "called"
  /\ tf_res' = <<>>
  /\ UNCHANGED nonTfVars

\* DsProxy::transform
Transform ==
  /\ tf_pc = "called"
  /\ LET target == to_addr(tf_tx) IN
       IF target = None
       THEN /\ tf_res' = MissingField("to")
            /\ tf_tx' = tf_tx
       ELSE LET data == IF IsSome(tf_tx.data) THEN Unwrap(tf_tx.data)
                        ELSE <<>>
                encoded_data ==
                  encode_with_selector(ExecuteSelector, Unwrap(target), data)
            IN /\ tf_tx' = set_to(set_data(tf_tx, encoded_data), ProxyAddr)
               /\ tf_res' = Ok
  /\ tf_pc' = "done"
  /\ UNCHANGED tf_tx0
  /\ UNCHANGED nonTfVars

NextTf ==
  \/ CallTransform
  \/ Transform

\* a DsProxy, nothing else in progress
InitTf ==
  /\ TfIdle
  /\ EscInit
  /\ LqIdle
  /\ LayIdle
  /\ SgIdle
  /\ MkIdle
  /\ LinIdle
  /\ NcIdle
  /\ EsIdle
  /\ CcIdle
  /\ FhIdle
  /\ MqIdle
  /\ ClIdle
  /\ SmIdle
  /\ FillIdle
  /\ stack = <<"Provider">>
  /\ provider_from = None

SpecTf == InitTf /\ [][NextTf]_vars

(***************************************************************************)
(* LogQuery: paginated log retrieval                                       *)
(* (ethers-providers/src/log_query.rs, Provider::get_logs_paginated).      *)
(* The file declares the cursor, its states and its errors; the            *)
(* transitions between the states follow the description of the            *)
(* pagination state machine.                                               *)
(***************************************************************************)
\* LogQueryError
LoadLastBlockError(e) == <<"LoadLastBlockError", e>>

LoadLogsError(e) == <<"LoadLogsError", e>>

\* variant: the window includes the block at from_block + page_size
WindowEnd_Inclusive(from_block, page_size) == from_block + page_size

\* last block of the window [from_block, from_block + page_size)
WindowEnd(from_block, page_size) == from_block + page_size - 1

\* the window a page fetch asks for
Window(from_block, page_size) ==
  [from |-> from_block, to |-> WindowEnd(from_block, page_size)]

\* where the cursor goes when a page has been consumed
NextFrom(from_block, page_size) == from_block + page_size

\* the blocks of a window that exist on the chain
BlocksIn(w) == {b \in 0..chain_head : w.from <= b /\ b <= w.to}

\* a set of blocks in ascending order
RECURSIVE Ascending(_)
Ascending(S) ==
  IF S = {} THEN <<>>
  ELSE LET m == CHOOSE x \in S : \A y \in S : x <= y
       IN <<m>> \o Ascending(S \ {m})

\* variant: the newest buffered log is handed out first
pop_front_Newest(q) == [log |-> q[Len(q)], rest |-> SubSeq(q, 1, Len(q) - 1)]

\* current_logs.pop_front()
pop_front(q) == [log |-> Head(q), rest |-> Tail(q)]

\* variant: a failed fetch sends the cursor back to its first state
AfterFailure_Restart == "Initial"

\* the state of a cursor that has surfaced a fetch failure
AfterFailure == "Done"

\* variant: the captured head itself counts as past the end
PastHead_AtHead(from_block, last_block) == from_block >= last_block

\* the cursor has passed the captured head
PastHead(from_block, last_block) == from_block > last_block

\* variant: the head is read again whenever the cursor moves on
LastBlockOnAdvance_Refreshed(last_block, head) == Some(head)

\* last_block when the cursor moves on: the head captured in LoadLastBlock
LastBlockOnAdvance(last_block, head) == last_block

\* the sequence has not ended
Polling == lq_state # "Done"

\* Initial: ask the node for its head block
PollInitial ==
  /\ lq_state = "Initial"
  /\ lq_head_reqs' = lq_head_reqs + 1
  /\ lq_state' = "LoadLastBlock"
  /\ UNCHANGED <<lq_from, lq_from0, lq_page, lq_logs, lq_last, lq_fetches,
                 lq_received, lq_yielded, lq_err, chain_head>>
  /\ UNCHANGED nonLqVars

\* LoadLastBlock: the head arrives and the first page is asked for, or the
\* request fails
PollLoadLastBlock ==
  /\ lq_state = "LoadLastBlock"
  /\ \/ /\ lq_last' = Some(chain_head)
        /\ lq_fetches' =
             Append(lq_fetches, Window(Unwrap(lq_from), lq_page))
        /\ lq_state' = "LoadLogs"
        /\ UNCHANGED lq_err
     \/ \E e \in TransportErrs :
          /\ lq_err' = Some(LoadLastBlockError(e))
          /\ lq_state' = AfterFailure
          /\ UNCHANGED <<lq_last, lq_fetches>>
  /\ UNCHANGED <<lq_from, lq_from0, lq_page, lq_logs, lq_received, lq_yielded,
                 lq_head_reqs, chain_head>>
  /\ UNCHANGED nonLqVars

\* LoadLogs: the page arrives and is buffered, or the request fails
PollLoadLogs ==
  /\ lq_state = "LoadLogs"
  /\ \/ \E S \in SUBSET BlocksIn(lq_fetches[Len(lq_fetches)]) :
          /\ lq_logs' = Ascending(S)
          /\ lq_received' = lq_received \o Ascending(S)
          /\ lq_state' = "Consume"
          /\ UNCHANGED lq_err
     \/ \E e \in TransportErrs :
          /\ lq_err' = Some(LoadLogsError(e))
          /\ lq_state' = AfterFailure
          /\ UNCHANGED <<lq_logs, lq_received>>
  /\ UNCHANGED <<lq_from, lq_from0, lq_page, lq_last, lq_fetches, lq_yielded,
                 lq_head_reqs, chain_head>>
  /\ UNCHANGED nonLqVars

\* Consume: hand out the next buffered log; with the buffer drained, move
\* the cursor and either ask for the next page or end the sequence
PollConsume ==
  /\ lq_state = "Consume"
  /\ IF lq_logs # <<>>
     THEN /\ lq_yielded' = Append(lq_yielded, pop_front(lq_logs).log)
          /\ lq_logs' = pop_front(lq_logs).rest
          /\ UNCHANGED <<lq_from, lq_fetches, lq_state, lq_last>>
     ELSE LET from_block == NextFrom(Unwrap(lq_from), lq_page) IN
            /\ lq_from' = Some(from_block)
            /\ lq_last' = LastBlockOnAdvance(lq_last, chain_head)
            /\ IF PastHead(from_block, Unwrap(lq_last))
               THEN /\ lq_state' = "Done"
                    /\ UNCHANGED lq_fetches
               ELSE /\ lq_fetches' =
                         Append(lq_fetches, Window(from_block, lq_page))
                    /\ lq_state' = "LoadLogs"
            /\ UNCHANGED <<lq_logs, lq_yielded>>
  /\ UNCHANGED <<lq_from0, lq_page, lq_received, lq_err, lq_head_reqs,
                 chain_head>>
  /\ UNCHANGED nonLqVars

\* the chain grows while the query runs
NewBlock ==
  /\ Polling
  /\ chain_head < MaxHead
  /\ chain_head' = chain_head + 1
  /\ UNCHANGED <<lq_state, lq_from, lq_from0, lq_page, lq_logs, lq_last,
                 lq_fetches, lq_received, lq_yielded, lq_err, lq_head_reqs>>
  /\ UNCHANGED nonLqVars

\* the steps of the cursor
PollNext ==
  \/ PollInitial
  \/ PollLoadLastBlock
  \/ PollLoadLogs
  \/ PollConsume

NextLq ==
  \/ PollInitial
  \/ PollLoadLastBlock
  \/ PollLoadLogs
  \/ PollConsume
  \/ NewBlock

\* Provider::get_logs_paginated(filter, page_size) on a chain with some head
InitLq ==
  /\ \E f \in 0..(MaxHead + 1), p \in 1..MaxPage : LogQueryNew(Some(f), p)
  /\ chain_head \in 0..MaxHead
  /\ TfIdle
  /\ EscInit
  /\ LayIdle
  /\ SgIdle
  /\ MkIdle
  /\ LinIdle
  /\ NcIdle
  /\ EsIdle
  /\ CcIdle
  /\ FhIdle
  /\ MqIdle
  /\ ClIdle
  /\ SmIdle
  /\ FillIdle
  /\ stack = <<"Provider">>
  /\ provider_from = None

SpecLq == InitLq /\ [][NextLq]_vars

\* the caller keeps polling and the node keeps answering
SpecLqFair == SpecLq /\ WF_vars(PollNext)

(***************************************************************************)
(* Operations no layer overrides: the defaults of trait Middleware         *)
(* (ethers-providers/src/lib.rs) over the Provider's own methods.  The     *)
(* same call is made through a stack of layers and on the Provider alone,  *)
(* against the same transport answers.                                     *)
(***************************************************************************)
\* operations that SignerMiddleware, GasEscalatorMiddleware and
\* TransformerMiddleware all leave to the trait's default
LayOps == {"get_block_number", "get_gas_price", "get_chainid", "fee_history"}

Layers == {"Signer", "GasEscalator", "Transformer"}

\* stacks of up to MaxDepth layers, outermost first
LayStacks ==
  UNION { [1..n -> Layers] : n \in 0..MaxDepth }

\* the JSON-RPC method behind each operation
MethodOf(o) ==
  CASE o = "get_block_number" -> "eth_blockNumber"
    [] o = "get_gas_price" -> "eth_gasPrice"
    [] o = "get_chainid" -> "eth_chainId"
    [] o = "fee_history" -> "eth_feeHistory"

\* what the transport answers to one request
Value(v) == <<"Ok", v>>

IsValue(r) == r # <<>> /\ r[1] = "Ok"

Answers == {Value(v) : v \in Vals} \cup {<<"Err", e>> : e \in TransportErrs}

\* Provider::request: a failure becomes ProviderError::JsonRpcClientError
RequestResult(a) == IF IsValue(a) THEN a ELSE JsonRpcClientError(a[2])

\* the Provider's own method: the requests it issues and what it returns
\* when the transport answers its n-th request with resps[n]
ProviderCall(o, resps) ==
  IF o = "fee_history" /\ ~IsValue(resps[1])
  THEN [requests |-> <<[method |-> MethodOf(o), params |-> <<"hex">>],
                       [method |-> MethodOf(o), params |-> <<"int">>]>>,
        result |-> IF IsValue(resps[2]) THEN resps[2]
                   ELSE RequestResult(resps[1])]
  ELSE [requests |->
          <<[method |-> MethodOf(o),
             params |-> IF o = "fee_history" THEN <<"hex">> ELSE <<>>]>>,
        result |-> RequestResult(resps[1])]

\* the trait methods impl Middleware for Provider defines itself (all but
\* inner(), which is unreachable!())
ProviderOverrides ==
  {"call", "client_version", "create_access_list",
    "debug_trace_transaction", "default_sender", "estimate_eip1559_fees",
    "estimate_gas", "fee_history", "fill_transaction", "get_accounts",
    "get_balance", "get_block", "get_block_number", "get_block_receipts",
    "get_block_with_txs", "get_chainid", "get_code", "get_filter_changes",
    "get_gas_price", "get_logs", "get_logs_paginated", "get_net_version",
    "get_proof", "get_storage_at", "get_transaction",
    "get_transaction_count", "get_transaction_receipt", "get_uncle",
    "get_uncle_count", "is_signer", "lookup_address", "new_filter",
    "parity_block_receipts", "provider", "resolve_avatar", "resolve_field",
    "resolve_name", "resolve_nft", "sign", "sign_transaction", "syncing",
    "trace_block", "trace_call", "trace_call_many", "trace_filter",
    "trace_get", "trace_raw_transaction",
    "trace_replay_block_transactions", "trace_replay_transaction",
    "trace_transaction", "txpool_content", "txpool_inspect",
    "txpool_status", "uninstall_filter" }

\* variant: Provider leaves get_chainid to the trait's default
ProviderImplements_NoChainId(o) ==
  o \in ProviderOverrides /\ o # "get_chainid"

\* Provider has a body of its own for operation o
ProviderImplements(o) == o \in ProviderOverrides

\* variant: the default forwards every call to inner().get_block_number()
Forwarded_BlockNumber(o) == "get_block_number"

\* the default of operation o calls the same operation on inner()
Forwarded(o) == o

\* .map_err(FromErr::from): a value passes, an error is wrapped once
map_err(r) == IF IsValue(r) THEN r ELSE <<"MiddlewareError">> \o r

\* the caller calls an operation on the outermost layer of a stack; the
\* same call on a Provider with no layer above it is recorded beside it
CallLayer ==
  /\ lay_pc = "idle"
  /\ \E o \in LayOps, st \in LayStacks, a1 \in Answers, a2 \in Answers :
       /\ lay_op' = o
       /\ lay_stack' = st
       /\ lay_resps' = <<a1, a2>>
       /\ ref_requests' = ProviderCall(o, <<a1, a2>>).requests
       /\ ref_result' = ProviderCall(o, <<a1, a2>>).result
  /\ lay_level' = 1
  /\ lay_pc' = "down"
  /\ lay_requests' = <<>>
  /\ lay_result' = <<>>
  /\ UNCHANGED nonLayVars

\* a layer's default method: self.inner().op(..)
Delegate ==
  /\ lay_pc = "down"
  /\ lay_level <= Len(lay_stack)
  /\ lay_op' = Forwarded(lay_op)
  /\ lay_level' = lay_level + 1
  /\ UNCHANGED <<lay_pc, lay_stack, lay_resps, lay_requests, lay_result,
                 ref_requests, ref_result>>
  /\ UNCHANGED nonLayVars

\* the call has reached the Provider: its own method runs; the trait's
\* default would call Provider::inner(), which panics
ProviderExec ==
  /\ lay_pc = "down"
  /\ lay_level = Len(lay_stack) + 1
  /\ IF ProviderImplements(lay_op)
     THEN /\ lay_requests' =
               lay_requests \o ProviderCall(lay_op, lay_resps).requests
          /\ lay_result' = ProviderCall(lay_op, lay_resps).result
          /\ lay_pc' = IF lay_stack = <<>> THEN "done" ELSE "up"
     ELSE /\ lay_pc' = "panic"
          /\ lay_result' = <<"unreachable">>
          /\ UNCHANGED lay_requests
  /\ UNCHANGED <<lay_op, lay_stack, lay_level, lay_resps, ref_requests,
                 ref_result>>
  /\ UNCHANGED nonLayVars

\* a layer's default method returns: .map_err(FromErr::from)
Return ==
  /\ lay_pc = "up"
  /\ lay_level' = lay_level - 1
  /\ lay_result' = map_err(lay_result)
  /\ lay_pc' = IF lay_level = 2 THEN "done" ELSE "up"
  /\ UNCHANGED <<lay_op, lay_stack, lay_resps, lay_requests, ref_requests,
                 ref_result>>
  /\ UNCHANGED nonLayVars

NextLay ==
  \/ CallLayer
  \/ Delegate
  \/ ProviderExec
  \/ Return

\* layers over a Provider, nothing else in progress
InitLay ==
  /\ LayIdle
  /\ SgIdle
  /\ MkIdle
  /\ LinIdle
  /\ NcIdle
  /\ EsIdle
  /\ CcIdle
  /\ FhIdle
  /\ MqIdle
  /\ ClIdle
  /\ SmIdle
  /\ TfIdle
  /\ EscInit
  /\ LqIdle
  /\ FillIdle
  /\ stack = <<"Provider">>
  /\ provider_from = None

SpecLay == InitLay /\ [][NextLay]_vars

(***************************************************************************)
(* SignerMiddleware: construction and Middleware::sign_transaction         *)
(* (ethers-middleware/src/signer.rs).                                      *)
(***************************************************************************)
\* the largest chain id a signer can hold (a u64); stands for 2^64 - 1
U64Max == MaxChain

\* chain ids an inner layer can report (a U256); the last exceeds a u64
ReportedChainIds == 1..(U64Max + 1)

\* U256::as_u64: the value when it fits in 64 bits; otherwise the
\* conversion panics (None)
as_u64(v) == IF v <= U64Max THEN Some(v) ELSE None

\* addresses a caller can name as the signer of a transaction
FromAddrs == {SignerAddr, OtherAddr}

\* SignerMiddleware::new: the signer is taken as it is
SignerMiddlewareNew ==
  /\ sg_pc = "none"
  /\ \E c \in 1..MaxChain :
       /\ sg_chain0' = c
       /\ sg_chain' = c
  /\ sg_op' = "new"
  /\ sg_pc' = "ready"
  /\ sg_result' = Ok
  /\ UNCHANGED <<sg_answer, sg_requests, sg_tx, sg_from, sg_signed>>
  /\ UNCHANGED nonSgVars

\* SignerMiddleware::new_with_provider_chain over a Provider
NewWithProviderChain ==
  /\ sg_pc = "none"
  /\ sg_op' = "new_with_provider_chain"
  /\ sg_requests' =
       Append(sg_requests, [method |-> "eth_chainId", params |-> <<>>])
  /\ \E c \in 1..MaxChain :
       /\ sg_chain0' = c
       /\ \/ \E e \in TransportErrs :
               /\ sg_answer' = <<"Err", e>>
               /\ sg_result' = <<"MiddlewareError">> \o JsonRpcClientError(e)
               /\ sg_pc' = "failed"
               /\ sg_chain' = c
          \/ \E chain_id \in ReportedChainIds :
               /\ sg_answer' = Value(chain_id)
               /\ IF IsSome(as_u64(chain_id))
                  THEN /\ sg_chain' = Unwrap(as_u64(chain_id))
                       /\ sg_result' = Ok
                       /\ sg_pc' = "ready"
                  ELSE /\ sg_chain' = c
                       /\ sg_result' = <<"panic">>
                       /\ sg_pc' = "panic"
  /\ UNCHANGED <<sg_tx, sg_from, sg_signed>>
  /\ UNCHANGED nonSgVars

\* Middleware::sign_transaction(tx, from) of SignerMiddleware: the address
\* argument is not looked at
MiddlewareSignTransaction ==
  /\ sg_pc = "ready"
  /\ \E t \in TxInputs, a \in FromAddrs :
       /\ WellFormed(t)
       /\ sg_tx' = t
       /\ sg_from' = a
       /\ sg_signed' = Append(sg_signed, t)
  /\ \/ sg_result' = Ok
     \/ sg_result' = <<"SignerError">>
  /\ sg_op' = "sign_transaction"
  /\ sg_pc' = "signed"
  /\ UNCHANGED <<sg_chain, sg_chain0, sg_answer, sg_requests>>
  /\ UNCHANGED nonSgVars

NextSg ==
  \/ SignerMiddlewareNew
  \/ NewWithProviderChain
  \/ MiddlewareSignTransaction

\* a signer and a Provider, not yet combined
InitSg ==
  /\ SgIdle
  /\ MkIdle
  /\ LinIdle
  /\ NcIdle
  /\ EsIdle
  /\ CcIdle
  /\ FhIdle
  /\ MqIdle
  /\ ClIdle
  /\ SmIdle
  /\ LayIdle
  /\ TfIdle
  /\ EscInit
  /\ LqIdle
  /\ FillIdle
  /\ stack = <<"Provider">>
  /\ provider_from = None

SpecSg == InitSg /\ [][NextSg]_vars

(***************************************************************************)
(* MockProvider (ethers-providers/src/transports/mock.rs): a queue of      *)
(* recorded requests and a queue of canned responses.                      *)
(***************************************************************************)
MockMethods == {"eth_blockNumber", "eth_gasPrice"}

\* the Rust type a caller deserialises each method's answer into
MethodType(m) == IF m = "eth_blockNumber" THEN "U64" ELSE "U256"

\* parameters: a zero-sized value, one that serialises, one that does not
MockParamVals == {"Zst", "p1", "bad"}

\* what a test can push: JSON values, tagged with the type they parse as,
\* and one value that does not serialise
MockData ==
  {[ty |-> "U64", v |-> "v1"], [ty |-> "U64", v |-> "v2"],
   [ty |-> "U256", v |-> "v1"], [ty |-> "none", v |-> "bad"]}

\* serde_json::to_value
to_value(p) == IF p = "bad" THEN <<"SerdeJson">> ELSE Value(p)

\* serde_json::from_value::<R>
from_value(element, R) ==
  IF element.ty = R THEN Value(element.v) ELSE <<"SerdeJson">>

\* variant: the response pushed first is handed out
pop_back_Oldest(q) == IF q = <<>> THEN None ELSE Some(q[1])

\* VecDeque::pop_back: the last element, if there is one
pop_back(q) == IF q = <<>> THEN None ELSE Some(q[Len(q)])

\* variant: the response handed out stays in the queue
drop_back_Keeps(q) == q

\* the queue pop_back leaves behind
drop_back(q) == IF q = <<>> THEN q ELSE SubSeq(q, 1, Len(q) - 1)

\* VecDeque::pop_front: the first element, if there is one
pop_front_opt(q) == IF q = <<>> THEN None ELSE Some(Head(q))

\* the queue pop_front leaves behind
drop_front(q) == IF q = <<>> THEN q ELSE Tail(q)

\* variant: the option is unwrapped, an empty one aborts
ok_or_Expect(o, e) == IF IsSome(o) THEN Value(Unwrap(o)) ELSE <<"panic">>

\* Option::ok_or
ok_or(o, e) == IF IsSome(o) THEN Value(Unwrap(o)) ELSE e

\* push(data): the serialised value goes to the back of responses
MockPush ==
  /\ mk_pc = "run"
  /\ mk_steps < MaxMockOps
  /\ \E d \in MockData :
       /\ mk_last' = [op |-> "push", method |-> "", params |-> d.v, ty |-> d.ty]
       /\ IF IsValue(to_value(d.v))
          THEN /\ mk_responses' = Append(mk_responses, d)
               /\ mk_ret' = Ok
          ELSE /\ mk_responses' = mk_responses
               /\ mk_ret' = to_value(d.v)
  /\ mk_steps' = mk_steps + 1
  /\ UNCHANGED <<mk_pc, mk_requests, mk_log, mk_asserted>>
  /\ UNCHANGED nonMkVars

\* request(method, params): recorded, then answered from the responses
MockRequest ==
  /\ mk_pc = "run"
  /\ mk_steps < MaxMockOps
  /\ \E m \in MockMethods, p \in MockParamVals :
       /\ mk_last' = [op |-> "request", method |-> m, params |-> p, ty |-> ""]
       /\ IF ~IsValue(to_value(p))
          THEN /\ mk_ret' = to_value(p)
               /\ UNCHANGED <<mk_requests, mk_log, mk_responses>>
          ELSE /\ mk_requests' = Append(mk_requests, <<m, p>>)
               /\ mk_log' = Append(mk_log, <<m, p>>)
               /\ LET element == ok_or(pop_back(mk_responses),
                                       <<"EmptyResponses">>)
                  IN IF IsValue(element)
                     THEN /\ mk_responses' = drop_back(mk_responses)
                          /\ mk_ret' = from_value(element[2], MethodType(m))
                     ELSE /\ mk_responses' = mk_responses
                          /\ mk_ret' = element
  /\ mk_steps' = mk_steps + 1
  /\ UNCHANGED <<mk_pc, mk_asserted>>
  /\ UNCHANGED nonMkVars

\* assert_request(method, data): the oldest recorded request is taken off
\* and compared; assert_eq! aborts on a difference
MockAssertRequest ==
  /\ mk_pc = "run"
  /\ mk_steps < MaxMockOps
  /\ \E m \in MockMethods, p \in MockParamVals \ {"bad"} :
       /\ mk_last' = [op |-> "assert_request", method |-> m, params |-> p,
                      ty |-> ""]
       /\ LET front == ok_or(pop_front_opt(mk_requests), <<"EmptyRequests">>)
          IN IF IsValue(front)
             THEN /\ mk_requests' = drop_front(mk_requests)
                  /\ mk_asserted' = mk_asserted + 1
                  /\ IF front[2] = <<m, p>>
                     THEN mk_ret' = Ok /\ mk_pc' = "run"
                     ELSE mk_ret' = <<>> /\ mk_pc' = "panic"
             ELSE /\ mk_ret' = front
                  /\ UNCHANGED <<mk_requests, mk_asserted, mk_pc>>
  /\ mk_steps' = mk_steps + 1
  /\ UNCHANGED <<mk_responses, mk_log>>
  /\ UNCHANGED nonMkVars

NextMk ==
  \/ MockPush
  \/ MockRequest
  \/ MockAssertRequest

\* a fresh MockProvider
InitMk ==
  /\ EscInit
  /\ TfIdle
  /\ LqIdle
  /\ LayIdle
  /\ SgIdle
  /\ MkIdle
  /\ LinIdle
  /\ NcIdle
  /\ EsIdle
  /\ CcIdle
  /\ FhIdle
  /\ MqIdle
  /\ ClIdle
  /\ SmIdle
  /\ stack = <<"Provider">>
  /\ provider_from = None
  /\ FillIdle

SpecMk == InitMk /\ [][NextMk]_vars

(***************************************************************************)
(* Provider::node_client (ethers-providers/src/provider.rs).               *)
(***************************************************************************)
\* what web3_clientVersion can answer: name and version, "/"-separated
ClientVersions == {<<"Geth", "v1.10">>, <<"erigon", "2.0">>, <<"Parity", "v2">>}

to_lowercase(w) ==
  CASE w = "Geth" -> "geth"
    [] w = "Parity" -> "parity"
    [] OTHER -> w

\* impl FromStr for NodeClient: the part before the first "/", lower-cased
ParseNodeClient(version) ==
  LET name == to_lowercase(version[1])
  IN CASE name = "geth" -> Value("Geth")
       [] name = "erigon" -> Value("Erigon")
       [] name = "openethereum" -> Value("OpenEthereum")
       [] name = "nethermind" -> Value("Nethermind")
       [] name = "besu" -> Value("Besu")
       [] OTHER -> <<"UnsupportedNodeClient">>

\* `let mut node_client = self._node_client; .. node_client = Some(..)`:
\* Option<NodeClient> is Copy, the assignment changes the local copy and
\* the field of &self keeps its value
StoreNodeClient(field, client) == field

\* node_client(): the cached client, or one web3_clientVersion round trip
NodeClientCall ==
  /\ Len(nc_rets) < MaxNodeCalls
  /\ IF IsSome(nc_cache)
     THEN /\ nc_rets' = Append(nc_rets, Value(Unwrap(nc_cache)))
          /\ UNCHANGED <<nc_cache, nc_requests>>
     ELSE /\ nc_requests' = Append(nc_requests, "web3_clientVersion")
          /\ \/ /\ \E e \in TransportErrs :
                     nc_rets' = Append(nc_rets, JsonRpcClientError(e))
                /\ nc_cache' = nc_cache
             \/ \E version \in ClientVersions :
                  LET parsed == ParseNodeClient(version)
                  IN /\ nc_rets' = Append(nc_rets, parsed)
                     /\ nc_cache' = IF IsValue(parsed)
                                    THEN StoreNodeClient(nc_cache, parsed[2])
                                    ELSE nc_cache
  /\ UNCHANGED nonNcVars

NextNc == NodeClientCall

\* Provider::new
InitNc ==
  /\ EscInit
  /\ TfIdle
  /\ LqIdle
  /\ LayIdle
  /\ SgIdle
  /\ MkIdle
  /\ LinIdle
  /\ NcIdle
  /\ EsIdle
  /\ CcIdle
  /\ FhIdle
  /\ MqIdle
  /\ ClIdle
  /\ SmIdle
  /\ stack = <<"Provider">>
  /\ provider_from = None
  /\ FillIdle

SpecNc == InitNc /\ [][NextNc]_vars

(***************************************************************************)
(* EventStream and EventStreamMeta (ethers-contract/src/stream.rs), polled *)
(* side by side over the same underlying log stream.                       *)
(***************************************************************************)
StreamLogs == {"log1", "log2", "logBad"}

LogSeqs == UNION {[1..n -> StreamLogs] : n \in 0..MaxLogs}

\* Poll<Option<T>>
Pending == <<"Pending">>

ReadyNone == <<"Ready", "None">>

ReadySome(x) == <<"Ready", "Some", x>>

\* MapEvent: the log decoded as the event type, or the decoder's error
parse(log) == IF log = "logBad" THEN <<"Err", "decode">> ELSE <<"Ok", log>>

\* LogMeta::from(&log)
LogMetaFrom(log) == <<"meta", log>>

\* res.map(|inner| (inner, meta))
WithMeta(res, meta) == IF res[1] = "Ok" THEN <<"Ok", res[2], meta>> ELSE res

\* variant: the end of the underlying stream is passed on
EventStreamPoll_PassesEnd(under) ==
  CASE under = Pending -> Pending
    [] under = ReadyNone -> ReadyNone
    [] OTHER -> ReadySome(parse(under[3]))

\* EventStream::poll_next on what the underlying stream returned
EventStreamPoll(under) ==
  CASE under = Pending -> Pending
    [] under = ReadyNone -> Pending
    [] OTHER -> ReadySome(parse(under[3]))

\* EventStreamMeta::poll_next on what the underlying stream returned
EventStreamMetaPoll(under) ==
  CASE under = Pending -> Pending
    [] under = ReadyNone -> ReadyNone
    [] OTHER -> ReadySome(WithMeta(parse(under[3]), LogMetaFrom(under[3])))

\* a poll: the underlying stream is not ready, yields its next log, or, with
\* none left, reports its end
EsPoll ==
  /\ es_polls < MaxPolls
  /\ \E under \in {Pending} \cup
                  (IF es_src = <<>> THEN {ReadyNone}
                   ELSE {ReadySome(Head(es_src))}) :
       /\ es_under' = under
       /\ es_src' = IF under = Pending \/ es_src = <<>> THEN es_src
                    ELSE Tail(es_src)
       /\ es_ret' = EventStreamPoll(under)
       /\ esm_ret' = EventStreamMetaPoll(under)
  /\ es_polls' = es_polls + 1
  /\ UNCHANGED nonEsVars

NextEs == EsPoll

\* EventStream::new over a log stream with any logs to come
InitEs ==
  /\ EscInit
  /\ TfIdle
  /\ LqIdle
  /\ LayIdle
  /\ SgIdle
  /\ MkIdle
  /\ LinIdle
  /\ NcIdle
  /\ stack = <<"Provider">>
  /\ provider_from = None
  /\ FillIdle
  /\ CcIdle
  /\ FhIdle
  /\ MqIdle
  /\ ClIdle
  /\ SmIdle
  /\ es_src \in LogSeqs
  /\ es_under = <<>>
  /\ es_ret = <<>>
  /\ esm_ret = <<>>
  /\ es_polls = 0

SpecEs == InitEs /\ [][NextEs]_vars

(***************************************************************************)
(* Two fill_transaction calls running at once through one shared stack.    *)
(* Each call's locals (its position, its &mut transaction) are its own;    *)
(* the layers are reached through &self. Legacy transactions to an         *)
(* address, so that the round trips are nonce, gas price and gas estimate. *)
(***************************************************************************)
Calls == {1, 2}

CcStacks == {<<"Signer", "Provider">>, <<"Transformer", "Provider">>}

CcTxs ==
  { [EmptyTx EXCEPT !.from = f, !.to = Some(Address(ToAddr)), !.nonce = n,
                    !.gas_price = gp] :
      f \in {None, Some(OtherAddr)}, n \in {None, Some(1)},
      gp \in {None, Some(1)} }

\* a call as it enters the outermost layer
CcStart(st, t) == [pc |-> FillEntry(st), tx |-> t, tx0 |-> t, res |-> <<>>]

\* the request the call's next step sends, "" when the step is local
CcRoundTrip(c) ==
  CASE c.pc = "s_nonce" /\ ~NonceSupplied(c.tx) -> "eth_getTransactionCount"
    [] c.pc = "p_price" /\ c.tx.gas_price = None -> "eth_gasPrice"
    [] c.pc = "p_gas" /\ NeedsGas(c.tx) -> "eth_estimateGas"
    [] OTHER -> ""

\* a failed round trip ends the call with the error, wrapped by each layer
CcFail(st, c, a) ==
  [c EXCEPT !.pc = "done",
            !.res = WrapErr(JsonRpcClientError(a[2]), Len(st) - 1)]

\* one step of a call, from its own locals, the layers' configuration and,
\* for a round trip, the transport's answer a
CcNext(st, chain, c, a) ==
  CASE c.pc = "s_pre" ->
         [c EXCEPT !.pc = "s_nonce",
                   !.tx = WithSignerChainId(
                            [c.tx EXCEPT !.from = Some(SignerFrom(c.tx))],
                            chain)]
    [] c.pc = "s_nonce" ->
         IF NonceSupplied(c.tx) THEN [c EXCEPT !.pc = "p_from"]
         ELSE IF IsValue(a)
              THEN [c EXCEPT !.pc = "p_from", !.tx.nonce = Some(a[2])]
              ELSE CcFail(st, c, a)
    [] c.pc = "p_from" ->
         [c EXCEPT !.pc = "p_price", !.tx = WithDefaultSender(c.tx, None)]
    [] c.pc = "p_price" ->
         IF IsSome(c.tx.gas_price)
         THEN [c EXCEPT !.pc = "p_gas",
                        !.tx = SetGasPrice(c.tx, Unwrap(c.tx.gas_price))]
         ELSE IF IsValue(a)
              THEN [c EXCEPT !.pc = "p_gas", !.tx = SetGasPrice(c.tx, a[2])]
              ELSE CcFail(st, c, a)
    [] c.pc = "p_gas" ->
         IF ~NeedsGas(c.tx) THEN [c EXCEPT !.pc = "done", !.res = Ok]
         ELSE IF IsValue(a)
              THEN [c EXCEPT !.pc = "done", !.res = Ok, !.tx.gas = Some(a[2])]
              ELSE CcFail(st, c, a)
    [] OTHER -> c

\* variant: the layer keeps the transaction it works on in a field of its
\* own, which the other call's transaction is then read back from
WriteBack_Shared(calls, p, c) ==
  [q \in DOMAIN calls |-> IF q = p THEN c ELSE [calls[q] EXCEPT !.tx = c.tx]]

\* a step writes through the call's own &mut TypedTransaction and locals
WriteBack(calls, p, c) == [calls EXCEPT ![p] = c]

\* a step of call p that needs no round trip
CcLocalStep(p) ==
  /\ cc_call[p].pc # "done"
  /\ CcRoundTrip(cc_call[p]) = ""
  /\ cc_call' = WriteBack(cc_call, p,
                          CcNext(cc_stack, signer_chain, cc_call[p], <<>>))
  /\ UNCHANGED <<cc_stack, cc_answers, cc_requests>>
  /\ UNCHANGED nonCcVars

\* a step of call p across one round trip of the shared transport
CcRequestStep(p) ==
  /\ cc_call[p].pc # "done"
  /\ CcRoundTrip(cc_call[p]) # ""
  /\ cc_requests' = Append(cc_requests, <<p, CcRoundTrip(cc_call[p])>>)
  /\ \E a \in Answers :
       /\ cc_call' = WriteBack(cc_call, p,
                               CcNext(cc_stack, signer_chain, cc_call[p], a))
       /\ cc_answers' = [cc_answers EXCEPT ![p] = Append(@, a)]
  /\ UNCHANGED cc_stack
  /\ UNCHANGED nonCcVars

NextCc ==
  \/ \E p \in Calls : CcLocalStep(p)
  \/ \E p \in Calls : CcRequestStep(p)

\* two calls on distinct transactions have entered the same stack
InitCc ==
  /\ EscInit
  /\ TfIdle
  /\ LqIdle
  /\ LayIdle
  /\ SgIdle
  /\ MkIdle
  /\ LinIdle
  /\ NcIdle
  /\ EsIdle
  /\ stack = <<"Provider">>
  /\ provider_from = None
  /\ FillIdle
  /\ FhIdle
  /\ MqIdle
  /\ ClIdle
  /\ SmIdle
  /\ cc_stack \in CcStacks
  /\ \E t1 \in CcTxs, t2 \in CcTxs :
       /\ t1 # t2
       /\ cc_call = <<CcStart(cc_stack, t1), CcStart(cc_stack, t2)>>
  /\ cc_answers = <<<<>>, <<>>>>
  /\ cc_requests = <<>>

SpecCc == InitCc /\ [][NextCc]_vars

(***************************************************************************)
(* Provider::fee_history (ethers-providers/src/provider.rs).               *)
(***************************************************************************)
\* block_count: T: Into<U256>; the last value does not fit in a u64
BlockCounts == 1..(U64Max + 1)

\* last_block: BlockNumber
LastBlocks == {"latest", "pending"}

FeeHistoryRequest(encoding, block_count, last_block) ==
  [method |-> "eth_feeHistory",
   params |-> [encoding |-> encoding, block_count |-> block_count,
               last_block |-> last_block]]

\* a caller asks for the fee history of the last block_count blocks
FhCall ==
  /\ fh_pc \in {"idle", "done"}
  /\ fh_calls < MaxFeeCalls
  /\ fh_calls' = fh_calls + 1
  /\ \E c \in BlockCounts : fh_count' = c
  /\ \E b \in LastBlocks : fh_block' = b
  /\ fh_pc' = "first"
  /\ fh_requests' = <<>>
  /\ fh_answers' = <<>>
  /\ fh_result' = <<>>
  /\ UNCHANGED nonFhVars

\* first attempt: block count hex-encoded; success is returned as it is
FhFirst ==
  /\ fh_pc = "first"
  /\ fh_requests' = Append(fh_requests, FeeHistoryRequest("hex", fh_count, fh_block))
  /\ \E a \in Answers :
       /\ fh_answers' = Append(fh_answers, a)
       /\ IF IsValue(a)
          THEN fh_pc' = "done" /\ fh_result' = RequestResult(a)
          ELSE fh_pc' = "fallback" /\ fh_result' = fh_result
  /\ UNCHANGED <<fh_count, fh_block, fh_calls>>
  /\ UNCHANGED nonFhVars

\* fallback: block_count.as_u64() as an integer; if this request fails too
\* the error of the first attempt is returned
FhFallback ==
  /\ fh_pc = "fallback"
  /\ IF IsSome(as_u64(fh_count))
     THEN /\ fh_requests' =
               Append(fh_requests,
                      FeeHistoryRequest("int", Unwrap(as_u64(fh_count)),
                                        fh_block))
          /\ \E a \in Answers :
               /\ fh_answers' = Append(fh_answers, a)
               /\ fh_result' = IF IsValue(a) THEN RequestResult(a)
                               ELSE RequestResult(fh_answers[1])
          /\ fh_pc' = "done"
     ELSE /\ fh_pc' = "panic"
          /\ UNCHANGED <<fh_requests, fh_answers, fh_result>>
  /\ UNCHANGED <<fh_count, fh_block, fh_calls>>
  /\ UNCHANGED nonFhVars

NextFh ==
  \/ FhCall
  \/ FhFirst
  \/ FhFallback

InitFh ==
  /\ EscInit
  /\ TfIdle
  /\ LqIdle
  /\ LayIdle
  /\ SgIdle
  /\ MkIdle
  /\ LinIdle
  /\ NcIdle
  /\ EsIdle
  /\ CcIdle
  /\ FhIdle
  /\ MqIdle
  /\ ClIdle
  /\ SmIdle
  /\ stack = <<"Provider">>
  /\ provider_from = None
  /\ FillIdle

SpecFh == InitFh /\ [][NextFh]_vars

(***************************************************************************)
(* request called at once on clones of one MockProvider: the clones share  *)
(* both queues (Arc<Mutex<VecDeque>>); a call locks requests to record     *)
(* itself, lets go, then locks responses to take its answer.               *)
(***************************************************************************)
Clones == {1, 2}

\* responses a test pushed, each with the position it was pushed at
PushedSeqs ==
  UNION {{[i \in 1..n |-> [id |-> i, ty |-> f[i].ty, v |-> f[i].v]] :
            f \in [1..n -> {d \in MockData : IsValue(to_value(d.v))}]} :
         n \in 0..MaxPushed}

\* a finished call
Finished(arg, recorded, ret, got) ==
  [method |-> arg[1], params |-> arg[2], recorded |-> recorded, ret |-> ret,
   got |-> got]

\* a clone calls request: the params are serialised and (method, params)
\* goes to the back of requests under that queue's lock
MqRecord(c) ==
  /\ mq_pc[c] = "idle"
  /\ Len(mq_done[c]) < MaxCloneCalls
  /\ \E m \in MockMethods, p \in {"p1", "bad"} :
       IF ~IsValue(to_value(p))
       THEN /\ mq_done' = [mq_done EXCEPT ![c] =
                  Append(@, Finished(<<m, p>>, FALSE, to_value(p), 0))]
            /\ UNCHANGED <<mq_requests, mq_who, mq_pc, mq_arg>>
       ELSE /\ mq_requests' = Append(mq_requests, <<m, p>>)
            /\ mq_who' = Append(mq_who, <<c, Len(mq_done[c]) + 1>>)
            /\ mq_arg' = [mq_arg EXCEPT ![c] = <<m, p>>]
            /\ mq_pc' = [mq_pc EXCEPT ![c] = "recorded"]
            /\ UNCHANGED mq_done
  /\ UNCHANGED <<mq_responses, mq_pushed>>
  /\ UNCHANGED nonMqVars

\* the call takes the last response under the responses' lock, or finds
\* none, and deserialises it
MqAnswer(c) ==
  /\ mq_pc[c] = "recorded"
  /\ LET element == ok_or(pop_back(mq_responses), <<"EmptyResponses">>)
     IN IF IsValue(element)
        THEN /\ mq_responses' = drop_back(mq_responses)
             /\ mq_done' = [mq_done EXCEPT ![c] =
                   Append(@, Finished(mq_arg[c], TRUE,
                                      from_value(element[2],
                                                 MethodType(mq_arg[c][1])),
                                      element[2].id))]
        ELSE /\ mq_responses' = mq_responses
             /\ mq_done' = [mq_done EXCEPT ![c] =
                   Append(@, Finished(mq_arg[c], TRUE, element, 0))]
  /\ mq_pc' = [mq_pc EXCEPT ![c] = "idle"]
  /\ UNCHANGED <<mq_requests, mq_who, mq_pushed, mq_arg>>
  /\ UNCHANGED nonMqVars

NextMq ==
  \/ \E c \in Clones : MqRecord(c)
  \/ \E c \in Clones : MqAnswer(c)

\* a MockProvider with some responses pushed, and its clones
InitMq ==
  /\ EscInit
  /\ TfIdle
  /\ LqIdle
  /\ LayIdle
  /\ SgIdle
  /\ MkIdle
  /\ LinIdle
  /\ NcIdle
  /\ EsIdle
  /\ CcIdle
  /\ FhIdle
  /\ ClIdle
  /\ SmIdle
  /\ stack = <<"Provider">>
  /\ provider_from = None
  /\ FillIdle
  /\ mq_pushed \in PushedSeqs
  /\ mq_responses = mq_pushed
  /\ mq_requests = <<>>
  /\ mq_who = <<>>
  /\ mq_pc = [c \in Clones |-> "idle"]
  /\ mq_arg = [c \in Clones |-> <<"", "">>]
  /\ mq_done = [c \in Clones |-> <<>>]

SpecMq == InitMq /\ [][NextMq]_vars

\* ---------------------------------------------------------------------
\* Clones of one GasEscalatorMiddleware (gas_escalator/mod.rs).  The txs
\* field is an Arc<Mutex<Vec<..>>>: a handle holds a pointer to a list, and
\* the lists live in cl_heap.  A record is (hash, handle that enqueued it).
\* ---------------------------------------------------------------------
MaxHandles == 2
MaxEnqueued == 3

\* A clone that gets a list of its own, filled with a copy of the records.
ArcClone_Deep(heap, a) == [heap |-> Append(heap, heap[a]), txs |-> Len(heap) + 1]
\* txs: self.txs.clone() on an Arc: the same allocation, nothing copied.
ArcClone(heap, a) == [heap |-> heap, txs |-> a]

Handles == 1..Len(cl_txs)

\* impl Clone for GasEscalatorMiddleware, called on handle h.
ClClone(h) ==
  /\ Len(cl_txs) < MaxHandles
  /\ LET c == ArcClone(cl_heap, cl_txs[h]) IN
       /\ cl_heap' = c.heap
       /\ cl_txs' = Append(cl_txs, c.txs)
  /\ UNCHANGED <<cl_all, cl_seen, cl_next>>
  /\ UNCHANGED nonClVars

\* A submission through handle h pushes the record of the broadcast
\* transaction on the list the handle points to.
ClEnqueue(h) ==
  /\ cl_next <= MaxEnqueued
  /\ LET rec == [hash |-> cl_next, by |-> h] IN
       /\ cl_heap' = [cl_heap EXCEPT ![cl_txs[h]] = Append(@, rec)]
       /\ cl_all' = Append(cl_all, rec)
  /\ cl_next' = cl_next + 1
  /\ UNCHANGED <<cl_txs, cl_seen>>
  /\ UNCHANGED nonClVars

\* A sweep of the monitor started on handle h locks the list the handle
\* points to, goes through its records and drops the one found mined
\* (mined = 0: none of them is).
ClSweep(h, found) ==
  /\ LET list == cl_heap[cl_txs[h]]
         gone == {r \in {list[i] : i \in 1..Len(list)} : r.hash = found}
     IN /\ cl_seen' = [h |-> h, list |-> list]
        /\ cl_heap' = [cl_heap EXCEPT ![cl_txs[h]] = SelectSeq(list, LAMBDA r : r \notin gone)]
        /\ cl_all' = SelectSeq(cl_all, LAMBDA r : r \notin gone)
  /\ UNCHANGED <<cl_txs, cl_next>>
  /\ UNCHANGED nonClVars

NextCl ==
  \/ \E h \in Handles : ClClone(h)
  \/ \E h \in Handles : ClEnqueue(h)
  \/ \E h \in Handles : \E found \in 0..MaxEnqueued : ClSweep(h, found)

InitCl ==
  /\ EscInit
  /\ TfIdle
  /\ LqIdle
  /\ LayIdle
  /\ SgIdle
  /\ MkIdle
  /\ LinIdle
  /\ NcIdle
  /\ EsIdle
  /\ CcIdle
  /\ FhIdle
  /\ MqIdle
  /\ SmIdle
  /\ stack = <<"Provider">>
  /\ provider_from = None
  /\ FillIdle
  /\ cl_heap = <<<<>>>>
  /\ cl_txs = <<1>>
  /\ cl_all = <<>>
  /\ cl_seen = [h |-> 0, list |-> <<>>]
  /\ cl_next = 1

SpecCl == InitCl /\ [][NextCl]_vars

\* ---------------------------------------------------------------------
\* SignerMiddleware: the address it caches beside its signer, and the
\* operations that only read a transaction (signer.rs).
\* ---------------------------------------------------------------------
MaxMiddlewares == 2

\* a signer as a caller hands it over: the address of its key and the chain
\* id it signs for (chain 1 until with_chain_id says otherwise)
Signers == [address : {SignerAddr, OtherAddr}, chain_id : {1}]

\* Signer::with_chain_id: the same key, another chain id
with_chain_id(signer, chain_id) == [signer EXCEPT !.chain_id = chain_id]

\* transactions a caller lends to estimate_gas, call, create_access_list
SmTxs ==
  { [EmptyTx EXCEPT !.from = f, !.to = Some(Address(ToAddr))] :
      f \in {None, Some(SignerAddr), Some(OtherAddr)} }

ReadOnlyOps == {"estimate_gas", "call", "create_access_list"}

\* SignerMiddleware { inner, signer, address } with address = signer.address()
SignerMiddlewareOf(signer) == [signer |-> signer, address |-> signer.address]

\* a with_signer that swaps the signer and leaves the cached address
with_signer_KeepsAddress(this, signer) == [this EXCEPT !.signer = signer]
\* with_signer: a clone of self with the address and the signer replaced
with_signer(this, signer) ==
  [this EXCEPT !.address = signer.address, !.signer = signer]

\* set_tx_from_if_none: works on a clone of the borrowed transaction
set_tx_from_if_none(self, t) ==
  IF t.from = None THEN [t EXCEPT !.from = Some(self.address)] ELSE t

Middlewares == 1..Len(sm_mws)

\* SignerMiddleware::new
SmNew(signer) ==
  /\ Len(sm_mws) < MaxMiddlewares
  /\ sm_mws' = Append(sm_mws, SignerMiddlewareOf(signer))
  /\ sm_by' = Append(sm_by, "new")
  /\ sm_op' = [name |-> "new", on |-> Len(sm_mws) + 1]
  /\ sm_ret' = Ok
  /\ UNCHANGED <<sm_tx0, sm_tx, sm_sent>>
  /\ UNCHANGED nonSmVars

\* SignerMiddleware::new_with_provider_chain: the address is read off the
\* signer, then the chain id is asked of the inner layer and put on the
\* signer; an inner error or a chain id beyond u64 leaves no middleware
SmNewWithProviderChain(signer, answer) ==
  /\ Len(sm_mws) < MaxMiddlewares
  /\ IF ~IsValue(answer)
     THEN /\ sm_ret' = <<"MiddlewareError">> \o JsonRpcClientError(answer[2])
          /\ sm_op' = [name |-> "new_with_provider_chain", on |-> 0]
          /\ UNCHANGED <<sm_mws, sm_by>>
     ELSE IF ~IsSome(as_u64(answer[2]))
     THEN /\ sm_ret' = <<"panic">>
          /\ sm_op' = [name |-> "new_with_provider_chain", on |-> 0]
          /\ UNCHANGED <<sm_mws, sm_by>>
     ELSE /\ sm_mws' = Append(sm_mws,
                 [signer |-> with_chain_id(signer, Unwrap(as_u64(answer[2]))),
                  address |-> signer.address])
          /\ sm_by' = Append(sm_by, "new_with_provider_chain")
          /\ sm_op' = [name |-> "new_with_provider_chain",
                       on |-> Len(sm_mws) + 1]
          /\ sm_ret' = Ok
  /\ UNCHANGED <<sm_tx0, sm_tx, sm_sent>>
  /\ UNCHANGED nonSmVars

\* with_signer on middleware m
SmWithSigner(m, signer) ==
  /\ Len(sm_mws) < MaxMiddlewares
  /\ sm_mws' = Append(sm_mws, with_signer(sm_mws[m], signer))
  /\ sm_by' = Append(sm_by, "with_signer")
  /\ sm_op' = [name |-> "with_signer", on |-> Len(sm_mws) + 1]
  /\ sm_ret' = Ok
  /\ UNCHANGED <<sm_tx0, sm_tx, sm_sent>>
  /\ UNCHANGED nonSmVars

\* address() on middleware m
SmAddress(m) ==
  /\ sm_op' = [name |-> "address", on |-> m]
  /\ sm_ret' = sm_mws[m].address
  /\ UNCHANGED <<sm_mws, sm_by, sm_tx0, sm_tx, sm_sent>>
  /\ UNCHANGED nonSmVars

\* default_sender() on middleware m
SmDefaultSender(m) ==
  /\ sm_op' = [name |-> "default_sender", on |-> m]
  /\ sm_ret' = Some(sm_mws[m].address)
  /\ UNCHANGED <<sm_mws, sm_by, sm_tx0, sm_tx, sm_sent>>
  /\ UNCHANGED nonSmVars

\* estimate_gas, call or create_access_list on middleware m: the borrowed
\* transaction is copied, the copy gets the sender and goes to the inner
\* layer, whose answer comes back (an error wrapped in MiddlewareError)
SmReadOnly(m, name, t, answer) ==
  /\ sm_op' = [name |-> name, on |-> m]
  /\ sm_tx0' = t
  /\ sm_tx' = t
  /\ sm_sent' = set_tx_from_if_none(sm_mws[m], t)
  /\ sm_ret' = IF IsValue(answer) THEN answer
               ELSE <<"MiddlewareError">> \o JsonRpcClientError(answer[2])
  /\ UNCHANGED <<sm_mws, sm_by>>
  /\ UNCHANGED nonSmVars

SmAnswers == {Value(1), <<"Err", "E1">>}

NextSm ==
  \/ \E signer \in Signers : SmNew(signer)
  \/ \E signer \in Signers :
       \E answer \in {Value(c) : c \in ReportedChainIds}
                      \cup {<<"Err", e>> : e \in TransportErrs} :
         SmNewWithProviderChain(signer, answer)
  \/ \E m \in Middlewares : \E signer \in Signers : SmWithSigner(m, signer)
  \/ \E m \in Middlewares : SmAddress(m)
  \/ \E m \in Middlewares : SmDefaultSender(m)
  \/ \E m \in Middlewares : \E name \in ReadOnlyOps : \E t \in SmTxs :
       \E answer \in SmAnswers : SmReadOnly(m, name, t, answer)

InitSm ==
  /\ EscInit
  /\ TfIdle
  /\ LqIdle
  /\ LayIdle
  /\ SgIdle
  /\ MkIdle
  /\ LinIdle
  /\ NcIdle
  /\ EsIdle
  /\ CcIdle
  /\ FhIdle
  /\ MqIdle
  /\ ClIdle
  /\ stack = <<"Provider">>
  /\ provider_from = None
  /\ FillIdle
  /\ sm_mws = <<>>
  /\ sm_by = <<>>
  /\ sm_op = [name |-> "none", on |-> 0]
  /\ sm_tx0 = EmptyTx
  /\ sm_tx = EmptyTx
  /\ sm_sent = EmptyTx
  /\ sm_ret = <<>>

SpecSm == InitSm /\ [][NextSm]_vars





Next ==
  \/ CallFillTransaction
  \/ SignerPre
  \/ SignerNonce
  \/ ProviderFrom
  \/ ProviderNoEns
  \/ EnsGetResolver
  \/ EnsValidateResolver
  \/ EnsResolve
  \/ FillGasPrice
  \/ Fill1559Keep
  \/ EstimateFeesGetBlock
  \/ FeeHistory
  \/ FeeHistoryFallback
  \/ FillGas
  \/ SignTransaction

Spec == Init /\ [][Next]_vars

TypeOK ==
  /\ pc \in {"idle", "done", "s_pre", "s_nonce", "p_from", "p_ens",
             "ens_validate", "ens_resolve", "p_price", "fee_history",
             "fee_history_fallback", "p_gas"}
  /\ est_calls \in 0..1

(***************************************************************************)
(* Properties of transaction filling and signing.                          *)
(***************************************************************************)
Filling == op = "fill_transaction"

FillDone == Filling /\ pc = "done"

ProviderOnly == stack = <<"Provider">>

ReqIdx(m) == {i \in 1..Len(requests) : requests[i].method = m}

CountMethod(m) == Cardinality(ReqIdx(m))

PriceSet(t) ==
  IF t.kind = "Eip1559" THEN IsSome(t.max_fee) /\ IsSome(t.max_prio)
  ELSE IsSome(t.gas_price)

\* sender, recipient address, gas limit and price fields all set
FullySpecified(t) ==
  /\ IsSome(t.from)
  /\ IsSome(t.to) /\ Unwrap(t.to).tag = "Address"
  /\ IsSome(t.gas)
  /\ PriceSet(t)

FeeRequests == ReqIdx("eth_getBlockByNumber") \cup ReqIdx("eth_feeHistory")

\* C3: the two fee fields of a fee-market transaction are filled together
\* or not at all.  If both are set on entry no estimation is made and both
\* keep their values.  If one is unset, estimate_eip1559_fees is invoked at
\* most once, exactly once when filling gets past the fee step, and then
\* both fields hold the pair it returned (a field the caller supplied is
\* replaced); until it has returned both fields keep their entry values.
C3_FeesFilledTogether ==
  (Filling /\ tx0.kind = "Eip1559") =>
    /\ est_calls <= 1
    /\ ~NeedsFees(tx0) =>
         /\ est_calls = 0 /\ fees = None /\ FeeRequests = {}
         /\ tx.max_fee = tx0.max_fee /\ tx.max_prio = tx0.max_prio
    /\ NeedsFees(tx0) =>
         \/ /\ fees = None
            /\ tx.max_fee = tx0.max_fee /\ tx.max_prio = tx0.max_prio
            /\ pc # "p_gas" /\ result # Ok
         \/ /\ IsSome(fees)
            /\ est_calls = 1
            /\ CountMethod("eth_getBlockByNumber") = 1
            /\ tx.max_fee = Some(Unwrap(fees)[1])
            /\ tx.max_prio = Some(Unwrap(fees)[2])

C3_Witness ==
  /\ FillDone /\ tx0.kind = "Eip1559" /\ result = Ok
  /\ tx0.max_fee = Some(1) /\ tx0.max_prio = None
  /\ est_calls = 1
  /\ tx.max_fee = Some(2) /\ tx.max_prio = Some(1)

\* C4: SignerMiddleware::fill_transaction on a transaction whose chain id
\* is set and differs from the signer's fails with DifferentChainID and
\* makes no transport request.
C4_FillRejectsForeignChain ==
  (Filling /\ Head(stack) = "Signer" /\ ChainIdMismatch(tx0, signer_chain)) =>
    /\ requests = <<>>
    /\ (pc = "done" => result = <<"DifferentChainID">>)

\* C5: the signing helper hands the signer only transactions that carry the
\* signer's chain id: an unset chain id is set to the signer's first, an
\* equal one is kept, and a different one makes the call return
\* DifferentChainID with the signer not invoked; no transport request is
\* made in any case.
C5_SignsOnlyOwnChain ==
  (op = "sign_transaction" /\ pc = "done") =>
    /\ requests = <<>>
    /\ \A i \in 1..Len(signed) : signed[i].chain_id = Some(signer_chain)
    /\ IF IsSome(tx0.chain_id) /\ tx0.chain_id # Some(signer_chain)
       THEN result = <<"DifferentChainID">> /\ signed = <<>>
       ELSE /\ signed = <<[tx0 EXCEPT !.chain_id = Some(signer_chain)]>>
            /\ result \in {Ok, <<"SignerError">>}

C5_Witness ==
  /\ op = "sign_transaction" /\ pc = "done"
  /\ tx0.chain_id = None
  /\ Len(signed) = 1 /\ signed[1].chain_id = Some(signer_chain)
  /\ result = Ok

C5_WitnessMismatch ==
  /\ op = "sign_transaction" /\ pc = "done"
  /\ tx0.chain_id = Some(2)
  /\ result = <<"DifferentChainID">>

\* C6: after a successful fill_transaction through any layer stack the
\* transaction has sender, recipient, price fields, gas limit and chain id
\* all set.
C6_NothingEmptyButNonce ==
  (FillDone /\ result = Ok) =>
    /\ IsSome(tx.from)
    /\ IsSome(tx.to)
    /\ PriceSet(tx)
    /\ IsSome(tx.gas)
    /\ IsSome(tx.chain_id)

\* C7: Provider::fill_transaction with no Signer layer above it leaves the
\* nonce as the caller passed it, on every path and outcome, and issues no
\* eth_getTransactionCount request.
C7_BaseLeavesNonce ==
  (Filling /\ ProviderOnly) =>
    /\ tx.nonce = tx0.nonce
    /\ CountMethod("eth_getTransactionCount") = 0

C7_Witness ==
  /\ FillDone /\ ProviderOnly /\ result = Ok
  /\ tx0.nonce = None /\ tx.nonce = None
  /\ tx0.gas = None /\ IsSome(tx.gas)
  /\ Len(requests) >= 2

(***************************************************************************)
(* Properties of the gas escalator's monitor list.                         *)
(***************************************************************************)
\* positions of the records of transaction h in the monitor list
RecordIdx(h) == {i \in 1..Len(txs) : txs[i].hash = h}

Accepted == {p \in Submitters : sub_res[p] = Ok}

Retired == {h \in Submitters : IsSome(retired[h])}

\* C8: submit enqueues a record exactly for the escalatable variants: a
\* fee-market submission returns UnsupportedTxType (or the inner error) and
\* never has a record; a submission returns Ok only for a legacy or
\* access-list transaction and has then added exactly one record; so the
\* records in the list plus those removed as mined number exactly the
\* accepted submissions.
C8_EnqueueIffEscalatable ==
  /\ \A p \in Submitters :
       /\ Cardinality(RecordIdx(p)) <= 1
       /\ (sub_pc[p] = "done" /\ sub_tx[p].kind = "Eip1559") =>
            /\ sub_res[p] \in {<<"UnsupportedTxType">>, <<"MiddlewareError">>}
            /\ RecordIdx(p) = {} /\ retired[p] = None
       /\ sub_res[p] = <<"UnsupportedTxType">> => sub_tx[p].kind = "Eip1559"
       /\ sub_res[p] = Ok =>
            /\ sub_tx[p].kind \in {"Legacy", "Eip2930"}
            /\ (Cardinality(RecordIdx(p)) = 1) # IsSome(retired[p])
       /\ sub_res[p] # Ok => RecordIdx(p) = {} /\ retired[p] = None
  /\ Len(txs) + Cardinality(Retired) = Cardinality(Accepted)

C8_Witness ==
  /\ \E p, q \in Submitters :
       /\ sub_pc[p] = "done" /\ sub_tx[p].kind = "Eip1559"
       /\ sub_res[p] = <<"UnsupportedTxType">>
       /\ sub_pc[q] = "done" /\ sub_tx[q].kind = "Legacy"
       /\ sub_res[q] = Ok
  /\ Len(txs) = 1

SubmitInCS == {p \in Submitters : sub_pc[p] = "push"}

SweepInCS == sweep_pc \in {"scan", "resubmit"}

\* C9: the monitor list is held by at most one of the submit calls and the
\* monitor at any time, under every interleaving; the Mutex names exactly
\* that holder; every record an accepted submit enqueued is in the list
\* until the monitor removes it as mined; and the records in the list are
\* whole: each is the request, as submitted, of its transaction.
C9_ListMutualExclusion ==
  /\ Cardinality(SubmitInCS) + (IF SweepInCS THEN 1 ELSE 0) <= 1
  /\ lock = Free <=> (SubmitInCS = {} /\ ~SweepInCS)
  /\ \A p \in SubmitInCS : lock = p
  /\ SweepInCS => lock = Sweeper
  /\ \A p \in Accepted : RecordIdx(p) # {} \/ IsSome(retired[p])
  /\ \A i \in 1..Len(txs) :
       /\ txs[i].req = sub_tx[txs[i].hash]
       /\ txs[i].time <= now

C9_Witness ==
  /\ SweepInCS
  /\ Len(txs) >= 1
  /\ \E p \in Submitters : sub_pc[p] = "lock"

\* C10: once the monitor has seen the receipt of a record's transaction, the
\* record is out of the list and the transaction is not resubmitted again:
\* its resubmissions stay those made before the receipt was seen.
C10_MinedIsTerminal ==
  \A h \in Submitters :
    IsSome(retired[h]) =>
      /\ h \in mined
      /\ RecordIdx(h) = {}
      /\ Len(resent[h]) = Unwrap(retired[h])

C10_Witness ==
  /\ sweeps >= 2
  /\ \E h, g \in Submitters :
       /\ retired[h] = Some(1)
       /\ retired[g] = None
       /\ Len(resent[g]) >= 2

(***************************************************************************)
(* Claims about the Transformer layer.                                     *)
(***************************************************************************)
TransformDone == tf_pc = "done"

\* the payload transform reads: an absent one counts as empty bytes
PayloadOf(t) == IF IsSome(t.data) THEN Unwrap(t.data) ELSE <<>>

HasTargetAddress(t) == IsSome(t.to) /\ Unwrap(t.to).tag = "Address"

\* the fields other than destination and payload
FrameFields ==
  {"kind", "from", "value", "gas", "gas_price", "max_fee", "max_prio",
   "nonce", "chain_id", "access_list"}

\* C15: DsProxy::transform on a transaction with target address T and
\* payload D (absent: empty bytes) succeeds and leaves the transaction with
\* the proxy address as target and, as payload, the selector of
\* execute(address,bytes) followed by the encoding of (T, D).
C15_RewritesToProxyExecute ==
  (TransformDone /\ HasTargetAddress(tf_tx0)) =>
    /\ tf_res = Ok
    /\ tf_tx.to = Some(Address(ProxyAddr))
    /\ tf_tx.data =
         Some(<<"execute(address,bytes)", Unwrap(tf_tx0.to).v>>
              \o PayloadOf(tf_tx0))

\* an absent payload and a present one were both rewritten
C15_Witness ==
  /\ TransformDone
  /\ tf_tx0.to = Some(Address(ToAddr))
  /\ tf_tx0.data = None
  /\ tf_tx.to = Some(Address(ProxyAddr))
  /\ tf_tx.data = Some(<<"execute(address,bytes)", ToAddr>>)

\* C16: DsProxy::transform on a transaction without a target address fails
\* with MissingField("to"), and whenever transform fails the transaction is
\* left exactly as the caller passed it.
C16_MissingToLeavesTxAlone ==
  TransformDone =>
    /\ ~HasTargetAddress(tf_tx0) => tf_res = MissingField("to")
    /\ tf_res # Ok => tf_tx = tf_tx0

\* a transaction with a payload but no target was refused
C16_Witness ==
  /\ TransformDone
  /\ tf_tx0.to = None
  /\ IsSome(tf_tx0.data)
  /\ tf_res = MissingField("to")

\* C17: a successful DsProxy::transform changes destination and payload
\* only: variant, sender, value, gas limit, price fields, nonce, chain id
\* and access list are as the caller passed them.
C17_OnlyToAndDataChange ==
  (TransformDone /\ tf_res = Ok) =>
    \A f \in FrameFields : tf_tx[f] = tf_tx0[f]

\* a transaction with every other field set was rewritten
C17_Witness ==
  /\ TransformDone
  /\ tf_res = Ok
  /\ tf_tx.to # tf_tx0.to
  /\ tf_tx.data # tf_tx0.data
  /\ \A f \in {"from", "value", "gas", "gas_price", "nonce", "chain_id",
               "access_list"} : IsSome(tf_tx0[f])

\* C18: while a layer below a TransformerMiddleware works on
\* fill_transaction, the transaction it sees has the proxy as destination.
C18_InnerSeesRewrittenTx ==
  (Filling /\ Head(stack) = "Transformer" /\ pc \notin {"idle", "done"}) =>
    tx.to = Some(Address(ProxyAddr))


(***************************************************************************)
(* Claims about the Log Query.                                             *)
(***************************************************************************)
LqEnded == lq_state = "Done" /\ lq_err = None

CeilDiv(a, b) == (a + b - 1) \div b

\* ceil((H - from_block + 1) / P), zero when from_block > H
CeilPages(H, from_block, P) ==
  IF from_block > H THEN 0 ELSE CeilDiv(H - from_block + 1, P)

\* C11: every log fetch of a paginated query with page size P asks for a
\* window of at most P blocks, each window starts after the previous one
\* ends, and the logs are yielded in non-decreasing block order.
C11_WindowsBoundedAndAscending ==
  /\ \A i \in 1..Len(lq_fetches) :
       /\ lq_fetches[i].from <= lq_fetches[i].to
       /\ lq_fetches[i].to - lq_fetches[i].from + 1 <= lq_page
  /\ \A i \in 1..(Len(lq_fetches) - 1) :
       lq_fetches[i + 1].from > lq_fetches[i].to
  /\ \A i \in 1..(Len(lq_yielded) - 1) : lq_yielded[i] <= lq_yielded[i + 1]

\* a query of two-block pages has fetched two pages and yielded three logs
C11_Witness ==
  /\ lq_page = 2
  /\ Len(lq_fetches) >= 2
  /\ Len(lq_yielded) >= 3

\* C12 as stated: the query ends, and when it ends without an error it has
\* fetched exactly ceil((H - from_block + 1) / P) pages, none when
\* from_block > H.
C12_EndsAfterCeilPages ==
  /\ <>(lq_state = "Done")
  /\ [](LqEnded =>
          Len(lq_fetches) = CeilPages(Unwrap(lq_last), Unwrap(lq_from0), lq_page))

\* C12, amended: the query ends, and when it ends without an error the
\* first page was fetched in any case, the pages number
\* max(1, ceil((H - from_block + 1) / P)), and only the last one reaches
\* the captured head H.
C12_EndsAfterAtLeastOnePage ==
  /\ <>(lq_state = "Done")
  /\ [](LqEnded =>
          /\ Len(lq_fetches) =
               IF Unwrap(lq_from0) > Unwrap(lq_last) THEN 1
               ELSE CeilDiv(Unwrap(lq_last) - Unwrap(lq_from0) + 1, lq_page)
          /\ lq_fetches[Len(lq_fetches)].to >= Unwrap(lq_last)
          /\ \A i \in 1..(Len(lq_fetches) - 1) :
               lq_fetches[i].to < Unwrap(lq_last))

\* a query over four blocks in pages of two ended after two pages
C12_Witness ==
  /\ LqEnded
  /\ lq_page = 2
  /\ Unwrap(lq_from0) = 0
  /\ Unwrap(lq_last) = 3
  /\ Len(lq_fetches) = 2

\* C13: a page fetch is in flight only while the buffer is empty, the logs
\* yielded so far followed by the buffered ones are the logs received, in
\* the order received, and each step hands out at most one log.
C13_BufferDrainsInOrder ==
  /\ [](/\ lq_state = "LoadLogs" => lq_logs = <<>>
        /\ lq_yielded \o lq_logs = lq_received)
  /\ [][Len(lq_yielded') <= Len(lq_yielded) + 1]_vars

\* a second page is in flight after two logs of the first were handed out
C13_Witness ==
  /\ lq_state = "LoadLogs"
  /\ Len(lq_fetches) = 2
  /\ Len(lq_yielded) = 2

\* C14: a failed head fetch is surfaced as LoadLastBlockError, a failed page
\* fetch as LoadLogsError, each around the transport error; the sequence
\* has then ended and no request or log follows.
C14_FetchFailureEndsQuery ==
  /\ [](IsSome(lq_err) =>
          /\ lq_state = "Done"
          /\ \E e \in TransportErrs :
               \/ /\ lq_err = Some(LoadLastBlockError(e))
                  /\ lq_last = None
                  /\ lq_fetches = <<>>
               \/ /\ lq_err = Some(LoadLogsError(e))
                  /\ IsSome(lq_last)
                  /\ lq_fetches # <<>>
                  /\ lq_logs = <<>>)
  /\ [][IsSome(lq_err) =>
          UNCHANGED <<lq_err, lq_head_reqs, lq_fetches, lq_yielded>>]_vars

\* the fetch of a second page failed after a log had been handed out
C14_Witness ==
  /\ lq_err = Some(LoadLogsError("E1"))
  /\ Len(lq_fetches) = 2
  /\ Len(lq_yielded) >= 1
  /\ lq_state = "Done"


(***************************************************************************)
(* Claims about pass-through layers and error propagation.                 *)
(***************************************************************************)
BothReturned == lay_pc = "done"

\* C19: an operation no layer overrides, called on a stack of pass-through
\* layers over a Provider, issues the same transport requests as the same
\* call on the Provider alone and, when either succeeds, returns the same
\* value.
C19_PassThroughIsProvider ==
  BothReturned =>
    /\ lay_requests = ref_requests
    /\ IsValue(lay_result) <=> IsValue(ref_result)
    /\ IsValue(ref_result) => lay_result = ref_result

\* fee_history went through two layers, fell back and succeeded
C19_Witness ==
  /\ BothReturned
  /\ Len(lay_stack) = 2
  /\ lay_op = "fee_history"
  /\ Len(lay_requests) = 2
  /\ IsValue(lay_result)


\* the errors Provider::fill_transaction can return
ProviderErrors ==
  {JsonRpcClientError(e) : e \in TransportErrs}
    \cup {<<"EnsError">>, <<"CustomError", "Latest block not found">>,
          <<"CustomError", "EIP-1559 not activated">>}

\* an error of the Provider as the caller of the outermost layer sees it
Carried(b) == [i \in 1..(Len(stack) - 1) |-> "MiddlewareError"] \o b

LastRequestIs(m) ==
  requests # <<>> /\ requests[Len(requests)].method = m

C21_ProviderInnerNeverCalled ==
  /\ lay_pc # "panic"
  /\ (lay_pc = "down" /\ lay_level = Len(lay_stack) + 1) =>
       lay_op \in ProviderOverrides

\* a call came down two layers and the Provider has just answered it
C21_Witness ==
  /\ lay_pc = "up"
  /\ lay_level = 3
  /\ Len(lay_stack) = 2
  /\ lay_requests # <<>>


\* C22: Middleware::sign_transaction(tx, from) on a SignerMiddleware with a
\* from other than the layer's address fails with WrongSigner and does not
\* reach the signer.
C22_WrongSignerRefused ==
  (sg_pc = "signed" /\ sg_from # SignerAddr) =>
    /\ sg_result = <<"WrongSigner">>
    /\ sg_signed = <<>>

\* C25: new_with_provider_chain sends exactly one get_chainid to the inner
\* layer; when that is answered the constructor returns a middleware whose
\* signer has the reported chain id, and when it fails the constructor
\* returns MiddlewareError and no middleware.
C25_ChainIdFromProvider ==
  (sg_op = "new_with_provider_chain") =>
    /\ Len(sg_requests) = 1
    /\ sg_requests[1].method = "eth_chainId"
    /\ IsValue(sg_answer) =>
         /\ sg_result = Ok
         /\ sg_pc = "ready"
         /\ sg_chain = sg_answer[2]
    /\ ~IsValue(sg_answer) =>
         /\ sg_pc = "failed"
         /\ \E e \in TransportErrs :
              sg_result = <<"MiddlewareError", "JsonRpcClientError", e>>

\* for a reported chain id that fits in a u64 the constructor does return a
\* middleware on that chain, whatever chain id the signer had before
ChainIdAdoptedWhenU64 ==
  (sg_op = "new_with_provider_chain" /\ IsValue(sg_answer)
     /\ sg_answer[2] <= U64Max) =>
    /\ Len(sg_requests) = 1
    /\ sg_result = Ok
    /\ sg_pc = "ready"
    /\ sg_chain = sg_answer[2]


HasSigner == \E i \in 1..Len(stack) : stack[i] = "Signer"

\* the Signer layer has done its part of fill_transaction
PastSigner == Filling /\ HasSigner /\ pc \notin {"idle", "s_pre", "s_nonce"}

\* C23: once SignerMiddleware::fill_transaction has resolved the sender it
\* is set, to the caller's from when that was set and is not the signer's
\* address, to the signer's address otherwise; it stays so to the end.
C23_SenderResolved ==
  (Filling /\ HasSigner /\ pc \notin {"idle", "s_pre"}) =>
    tx.from = IF IsSome(tx0.from) /\ tx0.from # Some(SignerAddr) THEN tx0.from
              ELSE Some(SignerAddr)

\* a foreign sender was kept through a successful fill
C23_Witness ==
  /\ FillDone
  /\ HasSigner
  /\ result = Ok
  /\ tx0.from = Some(OtherAddr)
  /\ tx.from = Some(OtherAddr)

\* C24: under a Signer a supplied nonce is kept and no transaction count is
\* requested; a missing one is set from exactly one eth_getTransactionCount
\* for the effective sender at the given block, and that request is the
\* first of the call, before any request of the inner fill.
C24_NonceBeforeInnerFill ==
  (Filling /\ HasSigner) =>
    /\ IsSome(tx0.nonce) =>
         /\ tx.nonce = tx0.nonce
         /\ CountMethod("eth_getTransactionCount") = 0
    /\ (tx0.nonce = None /\ PastSigner) =>
         /\ CountMethod("eth_getTransactionCount") = 1
         /\ pc # "done" => IsSome(tx.nonce)
         /\ result = Ok => IsSome(tx.nonce)
    /\ \A i \in ReqIdx("eth_getTransactionCount") :
         /\ i = 1
         /\ requests[i].params = <<Unwrap(tx.from), block>>
    /\ (pc \in {"s_pre", "s_nonce"}) => requests = <<>>

\* the count was requested first, then the inner fill made its requests
C24_Witness ==
  /\ FillDone
  /\ HasSigner
  /\ result = Ok
  /\ tx0.nonce = None
  /\ Len(requests) >= 3
  /\ requests[1].method = "eth_getTransactionCount"
  /\ requests[2].method # "eth_getTransactionCount"

\* C26: a chain id the caller set is never replaced by the Signer layer:
\* through fill_transaction and through the signing helper it is, at every
\* step and on every outcome, the one passed in.
C26_CallerChainIdKept ==
  (op \in {"fill_transaction", "sign_transaction"} /\ HasSigner
     /\ IsSome(tx0.chain_id)) =>
    tx.chain_id = tx0.chain_id

\* a fill under a signer on chain 1 succeeded on a transaction for chain 2
C26_Witness ==
  /\ FillDone
  /\ HasSigner
  /\ result = Ok
  /\ signer_chain = 1
  /\ tx0.chain_id = Some(2)
  /\ tx.chain_id = Some(2)

NameLeft == IsSome(tx.to) /\ Unwrap(tx.to).tag = "Name"

NoPricingRequests ==
  /\ CountMethod("eth_gasPrice") = 0
  /\ CountMethod("eth_getBlockByNumber") = 0
  /\ CountMethod("eth_feeHistory") = 0
  /\ CountMethod("eth_estimateGas") = 0

\* resolution of the recipient was attempted and the call ended with the
\* recipient still a name
ResolutionFailed ==
  Filling /\ pc \in {"done", "panic"} /\ NameLeft /\ CountMethod("eth_call") >= 1

\* C28: a fill whose name resolution failed returns EnsError, has issued no
\* gas-price, fee or gas-estimate request and leaves the recipient as the
\* name.
C28_EnsFailureIsEnsError ==
  ResolutionFailed =>
    /\ pc = "done"
    /\ result = Carried(<<"EnsError">>)
    /\ tx.to = tx0.to
    /\ NoPricingRequests

\* while the recipient is a name no gas-price, fee or gas-estimate request
\* is issued, and a fill that ends with the name unresolved is not Ok
NameNeverPriced ==
  /\ (Filling /\ NameLeft) => (NoPricingRequests /\ tx.to = tx0.to)
  /\ (FillDone /\ NameLeft) => result # Ok


MkStep == mk_steps' = mk_steps + 1

\* the (method, params) of that call
MkEntry == <<mk_last'.method, mk_last'.params>>

MkRecordedRequest == mk_last'.op = "request" /\ mk_last'.params # "bad"

C30_EmptyQueuesAreErrors ==
  [][MkStep =>
       /\ (MkRecordedRequest /\ mk_responses = <<>>) =>
            /\ mk_ret' = <<"EmptyResponses">>
            /\ mk_pc' = "run"
            /\ mk_responses' = <<>>
       /\ (mk_last'.op = "assert_request" /\ mk_requests = <<>>) =>
            /\ mk_ret' = <<"EmptyRequests">>
            /\ mk_pc' = "run"
            /\ mk_requests' = <<>>
  ]_vars

\* a request found no response, was checked off, and a second check found
\* no request
C30_Witness ==
  /\ mk_pc = "run"
  /\ mk_steps = 3
  /\ mk_ret = <<"EmptyRequests">>
  /\ Len(mk_log) = 1
  /\ mk_asserted = 1
  /\ mk_responses = <<>>


(***************************************************************************)
(* Claims of the fourth group.                                             *)
(***************************************************************************)
\* C31: after one successful node_client call every later call on the same
\* provider returns the same NodeClient and sends no web3_clientVersion
\* request.
C31_NodeClientCached ==
  \A i \in 1..Len(nc_rets) :
    IsValue(nc_rets[i]) =>
      /\ Len(nc_requests) <= i
      /\ \A j \in i..Len(nc_rets) : nc_rets[j] = nc_rets[i]


\* C32: a successful Provider::fill_transaction on a transaction without a
\* chain id has set it, to the chain id the node reports.
C32_ProviderSetsChainId ==
  (FillDone /\ ProviderOnly /\ result = Ok /\ tx0.chain_id = None) =>
    /\ IsSome(tx.chain_id)
    /\ CountMethod("eth_chainId") = 1


\* C33: when the underlying log stream reports its end, EventStream
\* returns Pending, so that it never returns Ready(None) to its consumer,
\* while EventStreamMeta over the same stream returns Ready(None).
C33_EventStreamHidesEnd ==
  /\ es_ret # <<"Ready", "None">>
  /\ es_under = <<"Ready", "None">> =>
       /\ es_ret = <<"Pending">>
       /\ esm_ret = <<"Ready", "None">>

\* one log was delivered, then the underlying stream ended
C33_Witness ==
  /\ es_under = <<"Ready", "None">>
  /\ es_polls >= 2
  /\ es_src = <<>>
  /\ es_ret = <<"Pending">>
  /\ esm_ret = <<"Ready", "None">>


\* the call run on its own: its steps in order, each round trip answered
\* by the next of the answers as; it waits when they are used up
RECURSIVE Alone(_, _, _, _)
Alone(st, chain, c, as) ==
  IF c.pc = "done" THEN c
  ELSE IF CcRoundTrip(c) = "" THEN Alone(st, chain, CcNext(st, chain, c, <<>>), as)
  ELSE IF as = <<>> THEN c
  ELSE Alone(st, chain, CcNext(st, chain, c, Head(as)), Tail(as))

HeadFetchedOnceFirst ==
  /\ lq_head_reqs <= 1
  /\ lq_state # "Initial" => lq_head_reqs = 1
  /\ lq_fetches # <<>> => IsSome(lq_last)

\* C35 as stated: the head is fetched once, before any page fetch, and is
\* never refreshed, so that no block above the captured head is ever in a
\* requested window.
C35_NothingAboveCapturedHead ==
  /\ HeadFetchedOnceFirst
  /\ \A i \in 1..Len(lq_fetches) :
       \A b \in 0..chain_head :
         (lq_fetches[i].from <= b /\ b <= lq_fetches[i].to) =>
           b <= Unwrap(lq_last)

\* C35, amended: the head is fetched once, before any page fetch, and is
\* never refreshed; every page after the first starts at or below the
\* captured head (its window may reach up to page_size - 1 blocks above it).
C35_HeadCapturedOnce ==
  [][/\ HeadFetchedOnceFirst'
     /\ IsSome(lq_last) => lq_last' = lq_last
     /\ \A i \in 2..Len(lq_fetches') :
          /\ lq_fetches'[i].from <= Unwrap(lq_last')
          /\ lq_fetches'[i].to <= Unwrap(lq_last') + lq_page' - 1
    ]_vars

\* a second page was asked for after the chain had grown past the captured
\* head
C35_Witness ==
  /\ Len(lq_fetches) >= 2
  /\ lq_head_reqs = 1
  /\ IsSome(lq_last)
  /\ chain_head > Unwrap(lq_last)


\* C36: every resubmission of a record is its request as submitted with
\* only the price changed, to original price + Increment * time since the
\* first broadcast, whatever was resubmitted before; and a sweep resubmits
\* every record it has passed that is still in the list.
C36_ResubmitsAtStrategyPrice ==
  /\ \A h \in Submitters :
       \A i \in 1..Len(resent[h]) :
         /\ resent[h][i].elapsed >= 0
         /\ resent[h][i].req =
              [sub_tx[h] EXCEPT !.gas_price =
                 sub_tx[h].gas_price + Increment * resent[h][i].elapsed]
  /\ sweep_pc \in {"scan", "resubmit"} =>
       \A i \in 1..Len(txs) :
         i < sweep_idx =>
           LET sent == resent[txs[i].hash]
           IN /\ sent # <<>>
              /\ sent[Len(sent)].elapsed =
                   IF sweep_now >= txs[i].time THEN sweep_now - txs[i].time
                   ELSE 0

\* a record resubmitted after one and after two units of time: the second
\* price is the original plus two increments
C36_Witness ==
  \E h \in Submitters :
    /\ Len(resent[h]) = 2
    /\ resent[h][1].elapsed = 1
    /\ resent[h][2].elapsed = 2
    /\ resent[h][2].req.gas_price = sub_tx[h].gas_price + 2 * Increment


FhEnded == fh_pc \in {"done", "panic"}

FhFirstFailed == fh_answers # <<>> /\ fh_answers[1][1] # "Ok"

\* the two attempts in order, and what is returned after each outcome
FeeHistoryAttempts ==
  /\ Len(fh_requests) <= 2
  /\ \A i \in 1..Len(fh_requests) :
       /\ fh_requests[i].method = "eth_feeHistory"
       /\ fh_requests[i].params.encoding = (IF i = 1 THEN "hex" ELSE "int")
       /\ fh_requests[i].params.block_count = fh_count
       /\ fh_requests[i].params.last_block = fh_block
  /\ (fh_pc = "done" /\ ~FhFirstFailed) =>
       /\ Len(fh_requests) = 1
       /\ fh_result = <<"Ok", fh_answers[1][2]>>
  /\ (fh_pc = "done" /\ FhFirstFailed) =>
       /\ Len(fh_requests) = 2
       /\ IF fh_answers[2][1] = "Ok"
          THEN fh_result = <<"Ok", fh_answers[2][2]>>
          ELSE fh_result = <<"JsonRpcClientError", fh_answers[1][2]>>

\* C37: fee_history sends at most two eth_feeHistory requests: a first
\* success is returned with no second request; after a first failure one
\* fallback request with the integer block count is sent and its success
\* returned; when both fail the first error is returned.
C37_FeeHistoryFallback ==
  /\ FeeHistoryAttempts
  /\ (FhEnded /\ FhFirstFailed) => (fh_pc = "done" /\ Len(fh_requests) = 2)

\* for a block count that fits in 64 bits the call never aborts
FeeHistoryWithinU64 ==
  /\ FeeHistoryAttempts
  /\ fh_count <= U64Max => fh_pc # "panic"


\* the finished calls of all clones
MqFinished ==
  {ck \in Clones \X (1..MaxCloneCalls) :
     mq_done # <<>> /\ ck[2] <= Len(mq_done[ck[1]])}

MqCall(ck) == mq_done[ck[1]][ck[2]]

\* how often call ck is in the request log
MqRecordings(ck) ==
  Cardinality({i \in 1..Len(mq_who) : mq_who[i] = ck})

MqConsumed == Len(mq_pushed) - Len(mq_responses)

\* no pushed response went to two calls
MqNoResponseTwice ==
  \A a \in MqFinished, b \in MqFinished :
    (a # b /\ MqCall(a).got # 0) => MqCall(a).got # MqCall(b).got

\* C38 as stated: with concurrent requests on clones, no response goes to
\* two requests, every request is recorded exactly once, the responses
\* consumed are as many as the requests that did not fail with
\* EmptyResponses, and a request failing with EmptyResponses is recorded.
C38_EveryRequestRecorded ==
  /\ MqNoResponseTwice
  /\ \A a \in MqFinished : MqRecordings(a) = 1
  /\ MqConsumed =
       Cardinality({a \in MqFinished : MqCall(a).ret # <<"EmptyResponses">>})

\* C38, amended: no response goes to two requests; every request whose
\* parameters serialise is recorded exactly once, also when it fails with
\* EmptyResponses, and one whose parameters do not serialise is not
\* recorded and takes no response; the responses consumed are as many as
\* the recorded requests that did not fail with EmptyResponses.
C38_SerialisedRequestsRecorded ==
  /\ MqNoResponseTwice
  /\ \A a \in MqFinished :
       /\ MqRecordings(a) = (IF MqCall(a).params = "bad" THEN 0 ELSE 1)
       /\ MqCall(a).params = "bad" =>
            (MqCall(a).got = 0 /\ MqCall(a).ret = <<"SerdeJson">>)
       /\ MqCall(a).ret = <<"EmptyResponses">> => MqCall(a).got = 0
  /\ MqConsumed =
       Cardinality({a \in MqFinished :
                      /\ MqCall(a).params # "bad"
                      /\ MqCall(a).ret # <<"EmptyResponses">>})
  /\ Len(mq_requests) = Len(mq_who)

\* both clones had recorded their request before either took a response;
\* one got the only response, the other EmptyResponses
C38_Witness ==
  /\ Len(mq_pushed) = 1
  /\ Len(mq_who) >= 2
  /\ mq_who[1][1] # mq_who[2][1]
  /\ mq_who[1][2] = 1 /\ mq_who[2][2] = 1
  /\ \E c \in Clones, d \in Clones :
       /\ c # d
       /\ Len(mq_done[c]) >= 1 /\ Len(mq_done[d]) >= 1
       /\ mq_done[c][1].got = 1
       /\ mq_done[d][1].ret = <<"EmptyResponses">>
       /\ mq_done[d][1].recorded


\* ---------------------------------------------------------------------
\* C39: cloning a GasEscalatorMiddleware shares the monitor list: every
\* handle observes the same list, which holds every record enqueued through
\* any handle and not yet dropped, and a sweep through a handle goes through
\* exactly that list, the records enqueued through other handles included.
\* ---------------------------------------------------------------------
ClonesShareList == \A h \in Handles : cl_heap[cl_txs[h]] = cl_all

SweepSeesAll == cl_seen' # cl_seen => cl_seen'.list = cl_all

C39_ClonesShareMonitorList == []ClonesShareList /\ [][SweepSeesAll]_vars

\* a sweep through one handle went through a record enqueued through another
C39_Witness ==
  \E i \in 1..Len(cl_seen.list) : cl_seen.list[i].by # cl_seen.h

\* ---------------------------------------------------------------------
\* C40: every SignerMiddleware, whichever of new, new_with_provider_chain
\* and with_signer produced it and whatever was called since, caches the
\* address of the signer it holds: address() returns it and default_sender()
\* returns Some of it.  estimate_gas, call and create_access_list hand the
\* inner layer a copy of the transaction with that address as sender when
\* the caller named none, and leave the caller's transaction as it was.
\* ---------------------------------------------------------------------
SmOn == sm_mws[sm_op.on]

C40_AddressIsSignersAddress ==
  /\ \A m \in Middlewares : sm_mws[m].address = sm_mws[m].signer.address
  /\ sm_op.name = "address" => sm_ret = SmOn.signer.address
  /\ sm_op.name = "default_sender" => sm_ret = Some(SmOn.signer.address)
  /\ sm_op.name \in ReadOnlyOps =>
       /\ sm_tx = sm_tx0
       /\ sm_sent = IF sm_tx0.from = None
                    THEN [sm_tx0 EXCEPT !.from = Some(SmOn.signer.address)]
                    ELSE sm_tx0

\* a read-only operation with no sender named, on a middleware that
\* with_signer built around a signer with another address than the first
C40_Witness ==
  /\ sm_op.name \in ReadOnlyOps
  /\ sm_by[sm_op.on] = "with_signer"
  /\ sm_tx0.from = None
  /\ sm_mws[1].signer.address # SmOn.signer.address

====
